---- MODULE Spec2Model ----
(***************************************************************************)
(* Model of the digital-chat backend: the settings store (settings.py),    *)
(* the safety classifier (safety.py) and the chat orchestrator (chat.py).  *)
(*                                                                         *)
(* Strings are modelled as sequences of atoms (each atom a fragment of     *)
(* text), so that lower(), strip(), prefix/suffix tests, concatenation and *)
(* regular-expression search are computed, not assumed.  An optional value *)
(* (None, or a key absent from a dict) is a sequence of length 0 or 1.     *)
(***************************************************************************)
EXTENDS Integers, Sequences, FiniteSets, TLC

\* ---------------------------------------------------------------- bounds
NumThreads == 2
MaxTextLen == 3
MaxNameLen == 3
MaxSessions == 2
MaxMessages == 2
MaxChats == 2

Threads == 1..NumThreads

None == <<>>
Some(v) == <<v>>
IsNone(o) == o = <<>>

\* ------------------------------------------------------------ safety.py
EDUCATIONAL == "educational"
CLINICAL == "clinical"
EMERGENCY == "emergency"

\* Atoms a question text is built from.  Every atom except the whitespace
\* atom consists of word characters only, so a word boundary (\b) lies
\* exactly between a word atom and a non-word atom or the end of the text.
\* "bleed{U+0130}ng" is "bleeding" written with the capital dotted I
\* (U+0130) in place of its i.
TextAtoms ==
    {"stroke", "STROKE", "bleeding", "bleed{U+0130}ng", "heavily", "urgent",
     "emergency", "hello", "x", " "}

IsSpaceAtom(a) == a \in {" ", "\t", "\n"}
IsWordAtom(a) == a \notin {" ", "\t", "\n", "'", ","}

\* str.lower() on one atom.  U+0130 lowers to two code points, i followed
\* by the combining dot above (U+0307).
LowerAtom(a) ==
    CASE a = "STROKE" -> "stroke"
      [] a = "URGENT" -> "urgent"
      [] a = "EMERGENCY" -> "emergency"
      [] a = "bleed{U+0130}ng" -> "bleedi{U+0307}ng"
      [] OTHER -> a

\* The atom as re.I compares it with a lower-case pattern: each character
\* is folded on its own, U+0130 to i, and U+0307 stays what it is.
FoldAtom(a) ==
    CASE a = "STROKE" -> "stroke"
      [] a = "URGENT" -> "urgent"
      [] a = "EMERGENCY" -> "emergency"
      [] a = "bleed{U+0130}ng" -> "bleeding"
      [] OTHER -> a

Lower(s) == [i \in 1..Len(s) |-> LowerAtom(s[i])]

RECURSIVE LStrip(_)
LStrip(s) ==
    IF s # <<>> /\ IsSpaceAtom(Head(s)) THEN LStrip(Tail(s)) ELSE s

RECURSIVE RStrip(_)
RStrip(s) ==
    IF s # <<>> /\ IsSpaceAtom(s[Len(s)])
    THEN RStrip(SubSeq(s, 1, Len(s) - 1))
    ELSE s

\* str.strip()
Strip(s) == LStrip(RStrip(s))

\* One alternative of a pattern \b(alt1|alt2|...)\b matched at position i of
\* s under re.I.  Every alternative starts and ends with a word character.
MatchAt(alt, s, i) ==
    /\ i + Len(alt) - 1 <= Len(s)
    /\ \A j \in 1..Len(alt) : FoldAtom(s[i + j - 1]) = alt[j]
    /\ (i = 1 \/ ~IsWordAtom(s[i - 1]))
    /\ (i + Len(alt) - 1 = Len(s) \/ ~IsWordAtom(s[i + Len(alt)]))

\* re.search(pattern, s, re.I): a pattern is the set of its alternatives.
Search(pattern, s) ==
    \E alt \in pattern : \E i \in 1..Len(s) : MatchAt(alt, s, i)

CLINICAL_PATTERNS ==
    << {<<"diagnose">>, <<"diagnosis">>, <<"diagnosing">>, <<"diagnostic">>},
       {<<"prescribe">>, <<"prescribing">>, <<"prescription">>,
        <<"medication">>, <<"drug">>},
       {<<"emergency">>, <<"911">>, <<"urgent">>,
        <<"bleeding", " ", "heavily">>,
        <<"can", "'", "t", " ", "breathe">>},
       {<<"lab", " ", "result">>, <<"blood", " ", "test">>, <<"imaging">>,
        <<"scan", " ", "result">>, <<"biopsy", " ", "result">>},
       {<<"should", " ", "i", " ", "take">>, <<"can", " ", "i", " ", "take">>,
        <<"dosage">>, <<"mg">>, <<"milligram">>},
       {<<"treat", " ", "my">>, <<"treating", " ", "my">>, <<"fix", " ", "my">>},
       {<<"is", " ", "this", " ", "normal", " ", "for", " ", "me">>,
        <<"my", " ", "specific">>, <<"my", " ", "case">>} >>

EMERGENCY_PATTERNS ==
    << {<<"emergency">>, <<"911">>, <<"bleeding">>,
        <<"can", "'", "t", " ", "breathe">>, <<"chest", " ", "pain">>,
        <<"stroke">>} >>

classify_question(text) ==
    LET lower == Strip(Lower(text)) IN
    IF lower = <<>> THEN EDUCATIONAL
    ELSE IF \E k \in 1..Len(EMERGENCY_PATTERNS) :
                Search(EMERGENCY_PATTERNS[k], lower)
         THEN EMERGENCY
    ELSE IF \E k \in 1..Len(CLINICAL_PATTERNS) :
                Search(CLINICAL_PATTERNS[k], lower)
         THEN CLINICAL
    ELSE EDUCATIONAL

\* -------------------------------------------------------------- chat.py
\* A model name is a sequence of atoms; a name that starts with the
\* namespace prefix has the atom "models/" first, and a name that ends in
\* "-latest" has that atom last.
FALLBACK_MODELS ==
    << <<"gemini-1.5-flash", "-latest">>,
       <<"gemini-1.5-flash">>,
       <<"gemini-1.5-flash", "-8b">>,
       <<"gemini-2.0-flash">>,
       <<"gemini-2.0-flash", "-lite">> >>

_normalize_model_name(model) ==
    LET cleaned == Strip(model) IN
    IF cleaned # <<>> /\ Head(cleaned) = "models/"
    THEN Tail(cleaned)
    ELSE cleaned

EndsWithLatest(name) == name # <<>> /\ name[Len(name)] = "-latest"

InSeq(x, s) == \E i \in 1..Len(s) : s[i] = x

\* A variant of AppendFallbacks that appends every fallback model.
RECURSIVE AppendFallbacks_NoDedup(_, _)
AppendFallbacks_NoDedup(candidates, k) ==
    IF k > Len(FALLBACK_MODELS) THEN candidates
    ELSE AppendFallbacks_NoDedup(Append(candidates, FALLBACK_MODELS[k]), k + 1)

\* for m in FALLBACK_MODELS[k..]: if m not in candidates: candidates.append(m)
RECURSIVE AppendFallbacks(_, _)
AppendFallbacks(candidates, k) ==
    IF k > Len(FALLBACK_MODELS) THEN candidates
    ELSE AppendFallbacks(
            IF InSeq(FALLBACK_MODELS[k], candidates)
            THEN candidates
            ELSE Append(candidates, FALLBACK_MODELS[k]),
            k + 1)

_candidate_models(model) ==
    LET primary == _normalize_model_name(model)
        first == IF primary = <<>> THEN <<>>
                 ELSE IF EndsWithLatest(primary) THEN <<primary>>
                 ELSE <<primary, primary \o <<"-latest">>>>
    IN AppendFallbacks(first, 1)

\* ---------------------------------------------------------- settings.py
DEFAULT_SYSTEM_PROMPT == "prompt:default"

PROMPT_PRESETS ==
    [default |-> DEFAULT_SYSTEM_PROMPT,
     concise |-> "prompt:concise",
     empathetic |-> "prompt:empathetic",
     educational |-> "prompt:educational"]

\* A voice value is a token: "True"/"False" (bool), "i:<n>" (int) or
\* "s:<text>" (str).  bool(v) and str(v) are the Python coercions.
PyBool(v) == IF v \in {"False", "i:0", "s:"} THEN "False" ELSE "True"

PyStr(v) ==
    CASE v = "True" -> "s:True"
      [] v = "False" -> "s:False"
      [] v = "i:0" -> "s:0"
      [] v = "i:1" -> "s:1"
      [] OTHER -> v

DEFAULT_VOICE_SETTINGS ==
    [enabled |-> "False", speaker_id |-> "s:dr_tewari",
     language |-> "s:en", auto_play |-> "True"]

\* {**a, **b}
DictMerge(a, b) ==
    [k \in DOMAIN a \cup DOMAIN b |-> IF k \in DOMAIN b THEN b[k] ELSE a[k]]

\* d.get(k, default)
DictGet(d, k, default) == IF k \in DOMAIN d THEN d[k] ELSE default

\* The default of os.getenv("GEMINI_MODEL", ...): the variable is unset.
GEMINI_MODEL == <<"gemini-1.5-flash", "-latest">>

\* Temperatures are floats in the code; the model counts hundredths.
DEFAULT_TEMPERATURE == 70
TEMPERATURE_MIN == 0
TEMPERATURE_MAX == 100
DEFAULT_MAX_TOKENS == 500
MAX_TOKENS_MIN == 100
MAX_TOKENS_MAX == 2000

Min(a, b) == IF a <= b THEN a ELSE b
Max(a, b) == IF a >= b THEN a ELSE b

\* The value json.load() returns.  isdict: it is a dict, and then each key is
\* absent (None) or present (Some(v)); otherwise it is a list, a string, a
\* number or null and has no keys.  The voice value is [isdict, d]: a dict
\* d, or something that is no dict.
EmptyRaw ==
    [isdict |-> TRUE,
     system_prompt |-> None, model |-> None, temperature |-> None,
     max_tokens |-> None, preset |-> None, voice |-> None]

\* A JSON value that is not an object, such as [] or null.
NonDictRaw == [EmptyRaw EXCEPT !.isdict = FALSE]

\* raw.get(key, default) on an optional field.
OptGet(o, default) == IF IsNone(o) THEN default ELSE o[1]

\* existing_voice if isinstance(existing_voice, dict) else {}
ExistingVoice(raw) ==
    IF ~IsNone(raw.voice) /\ raw.voice[1].isdict
    THEN raw.voice[1].d
    ELSE <<>>

MissingFile == [kind |-> "missing", data |-> EmptyRaw]
GarbageFile == [kind |-> "garbage", data |-> EmptyRaw]
JsonFile(data) == [kind |-> "json", data |-> data]

\* A file whose bytes are not text in the encoding open() decodes with.
UndecodableFile == [kind |-> "undecodable", data |-> EmptyRaw]

\* json.load() raises UnicodeDecodeError, which is neither of the two
\* exceptions _load_raw catches: it leaves _load_raw.
LoadRaises(f) == f.kind = "undecodable"

\* A missing file and a file json.load() rejects both load as {}; any other
\* file loads as the JSON value it holds.
_load_raw(f) == IF f.kind = "json" THEN f.data ELSE EmptyRaw

_save_raw(data) == JsonFile(data)

\* The dict get_settings() builds from the loaded raw dict.
SettingsView(raw) ==
    [system_prompt |-> OptGet(raw.system_prompt, DEFAULT_SYSTEM_PROMPT),
     model |-> OptGet(raw.model, GEMINI_MODEL),
     temperature |-> OptGet(raw.temperature, DEFAULT_TEMPERATURE),
     max_tokens |-> OptGet(raw.max_tokens, DEFAULT_MAX_TOKENS),
     preset |-> OptGet(raw.preset, "default"),
     voice |-> DictMerge(DEFAULT_VOICE_SETTINGS, ExistingVoice(raw))]

\* A variant that stores the temperature as supplied.
ClampTemperature_AsSupplied(t) == t

\* min(1.0, max(0.0, temperature))
ClampTemperature(t) == Min(TEMPERATURE_MAX, Max(TEMPERATURE_MIN, t))

\* max(100, min(2000, max_tokens))
ClampMaxTokens(n) == Max(MAX_TOKENS_MIN, Min(MAX_TOKENS_MAX, n))

\* A variant in which a system_prompt supplied in the same call wins over
\* the preset's text.
ApplyPreset_CustomWins(r, a) ==
    IF ~IsNone(a.preset) /\ a.preset[1] \in DOMAIN PROMPT_PRESETS
    THEN [r EXCEPT !.preset = a.preset,
                   !.system_prompt =
                      IF IsNone(a.system_prompt)
                      THEN Some(PROMPT_PRESETS[a.preset[1]])
                      ELSE a.system_prompt]
    ELSE r

\* if preset is not None and preset in PROMPT_PRESETS: ...
ApplyPreset(r, a) ==
    IF ~IsNone(a.preset) /\ a.preset[1] \in DOMAIN PROMPT_PRESETS
    THEN [r EXCEPT !.preset = a.preset,
                   !.system_prompt = Some(PROMPT_PRESETS[a.preset[1]])]
    ELSE r

\* A variant that merges the supplied voice with the defaults only.
MergedVoice_DropsStored(r, voice) == DictMerge(DEFAULT_VOICE_SETTINGS, voice)

\* merged_voice = {**DEFAULT_VOICE_SETTINGS, **existing_voice, **voice}
MergedVoice(r, voice) ==
    DictMerge(DictMerge(DEFAULT_VOICE_SETTINGS, ExistingVoice(r)), voice)

\* The dict stored under "voice": the four keys, each coerced.
StoredVoice(merged_voice) ==
    LET VoiceGet(k) == DictGet(merged_voice, k, DEFAULT_VOICE_SETTINGS[k])
    IN [enabled |-> PyBool(VoiceGet("enabled")),
        speaker_id |-> PyStr(VoiceGet("speaker_id")),
        language |-> PyStr(VoiceGet("language")),
        auto_play |-> PyBool(VoiceGet("auto_play"))]

\* The body of update_settings between _load_raw and _save_raw, on a dict.
MergeFields(raw, a) ==
    LET r1 == IF IsNone(a.system_prompt) THEN raw
              ELSE [raw EXCEPT !.system_prompt = a.system_prompt]
        r2 == IF IsNone(a.model) THEN r1
              ELSE [r1 EXCEPT !.model = a.model]
        r3 == IF IsNone(a.temperature) THEN r2
              ELSE [r2 EXCEPT !.temperature =
                      Some(ClampTemperature(a.temperature[1]))]
        r4 == IF IsNone(a.max_tokens) THEN r3
              ELSE [r3 EXCEPT !.max_tokens =
                      Some(ClampMaxTokens(a.max_tokens[1]))]
        r5 == ApplyPreset(r4, a)
        r6 == IF IsNone(a.voice) THEN r5
              ELSE [r5 EXCEPT !.voice = Some(
                      [isdict |-> TRUE,
                       d |-> StoredVoice(MergedVoice(r5, a.voice[1]))])]
    IN r6

\* A variant that starts from empty settings whatever the file holds.
MergeUpdate_FromEmpty(raw, a) == MergeFields(EmptyRaw, a)

MergeUpdate(raw, a) == MergeFields(raw, a)

\* The call changes the loaded value: one of the assignments of
\* update_settings is executed (on a value that is no dict it raises).
Touches(a) ==
    \/ ~IsNone(a.system_prompt)
    \/ ~IsNone(a.model)
    \/ ~IsNone(a.temperature)
    \/ ~IsNone(a.max_tokens)
    \/ (~IsNone(a.preset) /\ a.preset[1] \in DOMAIN PROMPT_PRESETS)
    \/ ~IsNone(a.voice)

\* ------------------------------------------------- chat.py: the replies
SORRY == "I'm sorry, I'm having trouble responding right now. "

MSG_NO_KEY == <<SORRY, "Please set GEMINI_API_KEY in your .env and try again.">>

MSG_EMERGENCY ==
    <<"If you're experiencing a medical emergency, please call 911 or go to your nearest emergency room immediately. This tool provides educational information and emotional support only. It does not provide medical advice.">>

MSG_CLINICAL ==
    <<"This is something your care team should address directly. I'm here to provide general education and emotional support about postoperative care and cancer-related topics. For personalized medical advice, please speak with your doctor.">>

MSG_NO_TEXT == <<"I'm sorry, I couldn't generate a response.">>

MSG_KEY_REJECTED ==
    <<SORRY, "Gemini rejected the API key (403). Please verify GEMINI_API_KEY.">>

MSG_GENERIC ==
    <<SORRY, "Please verify your Gemini API key and model name, then try again.">>

MsgRequestError(details) == <<SORRY, "Gemini request error: ", details>>

MsgNotFound(name) ==
    <<SORRY, "Gemini model '">> \o name
        \o <<"' was not found. ",
             "Please set model to 'gemini-1.5-flash-latest' in Settings.">>

\* "\n".join(parts)
RECURSIVE JoinLines(_)
JoinLines(parts) ==
    IF Len(parts) <= 1 THEN parts
    ELSE <<Head(parts), "\n">> \o JoinLines(Tail(parts))

\* seq of seqs flattened
RECURSIVE Flatten(_)
Flatten(ss) == IF ss = <<>> THEN <<>> ELSE Head(ss) \o Flatten(Tail(ss))

\* A variant that takes the text parts of the first candidate only.
TextParts_FirstCandidate(cands) ==
    IF cands = <<>> THEN <<>> ELSE SelectSeq(Head(cands), LAMBDA t : t # "")

\* The non-empty text parts of all candidates of a response, in order.
TextParts(cands) == SelectSeq(Flatten(cands), LAMBDA t : t # "")

\* --------------------------------------------- the upstream's answers
\* One answer of the LLM endpoint to one attempt: a 2xx response ("ok"), an
\* HTTPError ("http", with its status) or any other exception ("transport").
\* json: the body parses as the JSON object the code expects; msg: the
\* body's error.message, if it has one; cands: the candidates of a 2xx
\* body, each the texts of its parts ("" for a part without text).
Ok(c) == [kind |-> "ok", code |-> 200, json |-> TRUE, msg |-> None, cands |-> c]
OkGarbage == [kind |-> "ok", code |-> 200, json |-> FALSE, msg |-> None, cands |-> <<>>]
Http(c, j, m) == [kind |-> "http", code |-> c, json |-> j, msg |-> m, cands |-> <<>>]
Transport == [kind |-> "transport", code |-> 0, json |-> FALSE, msg |-> None, cands |-> <<>>]

Outcomes ==
    { Ok(<< <<"A">> >>), Ok(<< <<"A", "">>, <<"B">> >>), Ok(<< <<"">> >>),
      Ok(<<>>), OkGarbage, Transport,
      Http(404, TRUE, Some("model not found")),
      Http(403, TRUE, Some("forbidden")), Http(403, FALSE, None),
      Http(400, TRUE, Some("bad request")), Http(400, TRUE, Some("")),
      Http(400, TRUE, None), Http(400, FALSE, None),
      Http(500, TRUE, Some("internal")), Http(429, FALSE, None) }

\* details: error.message of the parsed body, "" when anything fails.
ExtractDetails(o) == IF o.json THEN OptGet(o.msg, "") ELSE ""

\* What one loop iteration of get_chat_response does with the answer o to
\* the attempt on active_model: "return" with a reply, or "continue".
LoopBody(o, active_model) ==
    IF o.kind = "ok"
    THEN IF ~o.json THEN [act |-> "return", reply |-> MSG_GENERIC]
         ELSE IF TextParts(o.cands) # <<>>
              THEN [act |-> "return", reply |-> JoinLines(TextParts(o.cands))]
              ELSE [act |-> "return", reply |-> MSG_NO_TEXT]
    ELSE IF o.kind = "http"
    THEN IF o.code = 403 THEN [act |-> "return", reply |-> MSG_KEY_REJECTED]
         ELSE IF o.code = 404 THEN [act |-> "continue", reply |-> <<>>]
         ELSE IF o.code = 400 /\ ExtractDetails(o) # ""
              THEN [act |-> "return",
                    reply |-> MsgRequestError(ExtractDetails(o))]
         ELSE [act |-> "return", reply |-> MSG_GENERIC]
    ELSE [act |-> "return", reply |-> MSG_GENERIC]

Continue == [act |-> "continue", reply |-> <<>>]

\* Variants of the loop body: a 2xx response without text moves on to the
\* next candidate; so does a 403; so does a transport error; a 400 is
\* reported with its detail even when there is none.
HandleOutcome_EmptyRetries(o, active_model) ==
    IF o.kind = "ok" /\ o.json /\ TextParts(o.cands) = <<>>
    THEN Continue
    ELSE LoopBody(o, active_model)

HandleOutcome_403Continues(o, active_model) ==
    IF o.kind = "http" /\ o.code = 403
    THEN Continue
    ELSE LoopBody(o, active_model)

HandleOutcome_ErrorRetries(o, active_model) ==
    IF o.kind = "transport"
    THEN Continue
    ELSE LoopBody(o, active_model)

HandleOutcome_400AlwaysDetail(o, active_model) ==
    IF o.kind = "http" /\ o.code = 400
    THEN [act |-> "return", reply |-> MsgRequestError(ExtractDetails(o))]
    ELSE LoopBody(o, active_model)

\* A variant without the final `except Exception`: what is not an HTTPError
\* leaves get_chat_response as an exception.
HandleOutcome_ErrorPropagates(o, active_model) ==
    IF o.kind = "transport" \/ (o.kind = "ok" /\ ~o.json)
    THEN [act |-> "raise", reply |-> <<>>]
    ELSE LoopBody(o, active_model)

HandleOutcome(o, active_model) == LoopBody(o, active_model)

\* A variant of BuildMessages that passes the roles on as they are.
BuildMessages_KeepsRoles(hist, q) ==
    LET kept == SelectSeq(hist, LAMBDA m : m.content # <<>>)
    IN [i \in 1..Len(kept) |->
           [role |-> kept[i].role, text |-> kept[i].content]]
       \o << [role |-> "user", text |-> q] >>

\* The Gemini conversation built from the history and the question.
BuildMessages(hist, q) ==
    LET kept == SelectSeq(hist, LAMBDA m : m.content # <<>>)
    IN [i \in 1..Len(kept) |->
           [role |-> IF kept[i].role = "assistant" THEN "model" ELSE "user",
            text |-> kept[i].content]]
       \o << [role |-> "user", text |-> q] >>

\* Variants of PreCheck: the classifier runs before the credential check;
\* a clinical question is passed on to the LLM.
PreCheck_ClassifyFirst(key, q) ==
    LET t == classify_question(q) IN
    IF t = EMERGENCY
    THEN [done |-> TRUE, reply |-> MSG_EMERGENCY, q_type |-> t]
    ELSE IF t = CLINICAL
    THEN [done |-> TRUE, reply |-> MSG_CLINICAL, q_type |-> t]
    ELSE IF key = ""
    THEN [done |-> TRUE, reply |-> MSG_NO_KEY, q_type |-> t]
    ELSE [done |-> FALSE, reply |-> <<>>, q_type |-> t]

PreCheck_ClinicalToLLM(key, q) ==
    IF key = ""
    THEN [done |-> TRUE, reply |-> MSG_NO_KEY, q_type |-> "none"]
    ELSE LET t == classify_question(q) IN
         IF t = EMERGENCY
         THEN [done |-> TRUE, reply |-> MSG_EMERGENCY, q_type |-> t]
         ELSE [done |-> FALSE, reply |-> <<>>, q_type |-> t]

\* What get_chat_response decides before it builds a request: the reply it
\* returns at once (done), and the classifier's verdict ("none" when the
\* classifier was not called).
PreCheck(key, q) ==
    IF key = ""
    THEN [done |-> TRUE, reply |-> MSG_NO_KEY, q_type |-> "none"]
    ELSE LET t == classify_question(q) IN
         IF t = EMERGENCY
         THEN [done |-> TRUE, reply |-> MSG_EMERGENCY, q_type |-> t]
         ELSE IF t = CLINICAL
         THEN [done |-> TRUE, reply |-> MSG_CLINICAL, q_type |-> t]
         ELSE [done |-> FALSE, reply |-> <<>>, q_type |-> t]

\* A variant that names the configured model.
NotFoundName_Configured(last, model) == model

\* last_404_model or model
NotFoundName(last, model) ==
    IF IsNone(last) \/ last[1] = <<>> THEN model ELSE last[1]

\* ------------------------------------------------------------- inputs
NoArgs ==
    [system_prompt |-> None, model |-> None, temperature |-> None,
     max_tokens |-> None, preset |-> None, voice |-> None]

UpdateArgs ==
    { [NoArgs EXCEPT !.model = Some(<<"custom">>)],
      [NoArgs EXCEPT !.temperature = Some(500)],
      [NoArgs EXCEPT !.temperature = Some(-50), !.max_tokens = Some(3000)],
      [NoArgs EXCEPT !.max_tokens = Some(1)],
      [NoArgs EXCEPT !.system_prompt = Some("prompt:custom")],
      [NoArgs EXCEPT !.preset = Some("concise"),
                     !.system_prompt = Some("prompt:custom")],
      [NoArgs EXCEPT !.preset = Some("bogus")],
      [NoArgs EXCEPT !.voice = Some([enabled |-> "i:1", pitch |-> "s:high"])],
      [NoArgs EXCEPT !.temperature = Some(30), !.max_tokens = Some(1500)],
      [NoArgs EXCEPT !.preset = Some("empathetic")],
      [NoArgs EXCEPT !.voice = Some([speaker_id |-> "i:1",
                                     auto_play |-> "s:"])] }

CustomRaw ==
    [EmptyRaw EXCEPT !.system_prompt = Some("prompt:custom"),
                     !.model = Some(<<"models/", "gemini-2.0-flash">>),
                     !.temperature = Some(20),
                     !.max_tokens = Some(800)]

\* The settings file at start-up: absent, unreadable as JSON, or a dict
\* this program wrote earlier.
InitFiles == {MissingFile, GarbageFile, JsonFile(CustomRaw)}

\* The settings file a server process finds: the above, or a file damaged
\* outside the program: bytes that are no text, or JSON that is no object.
FoundFiles ==
    InitFiles \cup
    { UndecodableFile,
      JsonFile(NonDictRaw),
      JsonFile([EmptyRaw EXCEPT !.voice = Some([isdict |-> FALSE, d |-> <<>>])]) }

ChatFiles ==
    InitFiles \cup
    { JsonFile([EmptyRaw EXCEPT !.model = Some(<<>>)]),
      JsonFile([EmptyRaw EXCEPT !.model = Some(<<"custom">>)]),
      JsonFile([EmptyRaw EXCEPT !.model = Some(<<" ", "custom", "-latest">>)]) }

ApiKeys == {"", "key"}

Texts == UNION {[1..n -> TextAtoms] : n \in 0..MaxTextLen}

\* Atoms a configured model name is built from.
ModelAtoms ==
    {"models/", "gemini-1.5-flash", "gemini-2.0-flash", "-latest", "-8b",
     "-lite", "custom", " "}

ModelNames == UNION {[1..n -> ModelAtoms] : n \in 0..MaxNameLen}

Questions ==
    { <<>>, <<" ">>, <<"hello">>, <<"STROKE">>, <<"urgent">>,
      <<"bleeding", " ", "heavily">>, <<"x", "stroke">>, <<"emergency">> }

Histories ==
    { <<>>,
      << [role |-> "user", content |-> <<"hello">>],
         [role |-> "assistant", content |-> <<"x">>] >>,
      << [role |-> "assistant", content |-> <<>>],
         [role |-> "system", content |-> <<"hello">>] >> }

\* The requests the concurrent specification draws from: one question per
\* path (answered by the LLM, answered by the pre-filter).  ChatSpec covers
\* all of Questions and Histories.
RequestQuestions == { <<"hello">>, <<"STROKE">> }

RequestHistories ==
    { << [role |-> "user", content |-> <<"hello">>],
         [role |-> "assistant", content |-> <<"x">>] >> }

\* -------------------------------------------------------------- state
VARIABLES
    file,       \* data/settings.json
    lock,       \* settings._lock: 0 when free, else the thread holding it
    apiKey,     \* chat.GEMINI_API_KEY, read from the environment at import
    pc,         \* where each thread is
    op,         \* the call each thread is serving
    uargs,      \* update_settings: the arguments
    raw,        \* update_settings: the dict _load_raw() returned
    result,     \* the dict get_settings()/update_settings() returned
    question,   \* get_chat_response: question
    history,    \* get_chat_response: history
    settings,   \* get_chat_response: settings
    qtype,      \* get_chat_response: q_type ("none": classifier not called)
    messages,   \* get_chat_response: messages
    cands,      \* get_chat_response: the list _candidate_models(model)
    idx,        \* get_chat_response: position of active_model in cands
    last404,    \* get_chat_response: last_404_model
    sent,       \* the requests this call has sent to the LLM, in order
    outcomes,   \* the upstream's answers to them, in order
    reply,      \* the string get_chat_response returned
    sessions,   \* store._sessions: session id -> list of messages
    storeLock,  \* store._lock: 0 when free, else the thread holding it
    issued,     \* the values uuid.uuid4() has returned so far
    session_id, \* store functions: the session_id argument
    sid,        \* create_session: sid; the id a store function returned
    msg,        \* append_message: role and content
    stage,      \* chat handler: where it is ("none": no chat request)
    chat_session_id, \* chat handler: session_id
    speech_result,   \* chat handler: speech_result.audio_url
    served      \* the chat requests taken so far

storeShared == <<sessions, storeLock, issued>>
storeLocals == <<session_id, sid, msg>>
storeVars == <<sessions, storeLock, issued, session_id, sid, msg>>
handlerVars == <<stage, chat_session_id, speech_result, served>>

vars ==
    <<file, lock, apiKey, pc, op, uargs, raw, result, question, history,
      settings, qtype, messages, cands, idx, last404, sent, outcomes, reply,
      sessions, storeLock, issued, session_id, sid, msg,
      stage, chat_session_id, speech_result, served>>

respLocals ==
    <<question, history, settings, qtype, messages, cands, idx, last404,
      sent, outcomes, reply>>

DefaultView == SettingsView(EmptyRaw)

\* store.py at import: no session, the lock free, no call under way.
NoMessage == [role |-> "", content |-> <<>>]

StoreIdle ==
    /\ sessions = <<>>
    /\ storeLock = 0
    /\ issued = {}
    /\ session_id = [p \in Threads |-> None]
    /\ sid = [p \in Threads |-> None]
    /\ msg = [p \in Threads |-> NoMessage]

\* main.py at import: no chat request under way.
HandlerIdle ==
    /\ stage = [p \in Threads |-> "none"]
    /\ chat_session_id = [p \in Threads |-> None]
    /\ speech_result = [p \in Threads |-> None]
    /\ served = 0

IdleThreads ==
    /\ pc = [p \in Threads |-> "idle"]
    /\ op = [p \in Threads |-> "none"]
    /\ uargs = [p \in Threads |-> NoArgs]
    /\ raw = [p \in Threads |-> EmptyRaw]
    /\ result = [p \in Threads |-> DefaultView]
    /\ question = [p \in Threads |-> <<>>]
    /\ history = [p \in Threads |-> <<>>]
    /\ settings = [p \in Threads |-> DefaultView]
    /\ qtype = [p \in Threads |-> "none"]
    /\ messages = [p \in Threads |-> <<>>]
    /\ cands = [p \in Threads |-> <<>>]
    /\ idx = [p \in Threads |-> 0]
    /\ last404 = [p \in Threads |-> None]
    /\ sent = [p \in Threads |-> <<>>]
    /\ outcomes = [p \in Threads |-> <<>>]
    /\ reply = [p \in Threads |-> <<>>]
    /\ StoreIdle
    /\ HandlerIdle

Init ==
    /\ file \in InitFiles
    /\ lock = 0
    /\ apiKey \in ApiKeys
    /\ IdleThreads

\* A worker thread takes a new request: its locals start afresh.
Begin(p, o, first) ==
    /\ pc[p] \in {"idle", "done"}
    /\ pc' = [pc EXCEPT ![p] = first]
    /\ op' = [op EXCEPT ![p] = o]
    /\ raw' = [raw EXCEPT ![p] = EmptyRaw]
    /\ result' = [result EXCEPT ![p] = DefaultView]
    /\ settings' = [settings EXCEPT ![p] = DefaultView]
    /\ qtype' = [qtype EXCEPT ![p] = "none"]
    /\ messages' = [messages EXCEPT ![p] = <<>>]
    /\ cands' = [cands EXCEPT ![p] = <<>>]
    /\ idx' = [idx EXCEPT ![p] = 0]
    /\ last404' = [last404 EXCEPT ![p] = None]
    /\ sent' = [sent EXCEPT ![p] = <<>>]
    /\ outcomes' = [outcomes EXCEPT ![p] = <<>>]
    /\ reply' = [reply EXCEPT ![p] = <<>>]
    /\ UNCHANGED <<file, lock, apiKey>>
    /\ UNCHANGED storeShared

\* GET /api/settings
StartGet(p) ==
    /\ Begin(p, "get", "g_lock")
    /\ uargs' = [uargs EXCEPT ![p] = NoArgs]
    /\ question' = [question EXCEPT ![p] = <<>>]
    /\ history' = [history EXCEPT ![p] = <<>>]
    /\ UNCHANGED storeLocals
    /\ UNCHANGED handlerVars

\* PUT /api/settings
StartUpdate(p) ==
    /\ Begin(p, "update", "u_lock")
    /\ \E a \in UpdateArgs : uargs' = [uargs EXCEPT ![p] = a]
    /\ question' = [question EXCEPT ![p] = <<>>]
    /\ history' = [history EXCEPT ![p] = <<>>]
    /\ UNCHANGED storeLocals
    /\ UNCHANGED handlerVars

\* A call of get_chat_response(question, history).
StartRespond(p) ==
    /\ Begin(p, "respond", "g_lock")
    /\ uargs' = [uargs EXCEPT ![p] = NoArgs]
    /\ \E q \in RequestQuestions : question' = [question EXCEPT ![p] = q]
    /\ \E h \in RequestHistories : history' = [history EXCEPT ![p] = h]
    /\ UNCHANGED storeLocals
    /\ UNCHANGED handlerVars

\* threading.Lock.acquire(): blocks until the lock is free; not reentrant.
CanAcquire(l, p) == l = 0

\* get_settings: with _lock
GetLock(p) ==
    /\ pc[p] = "g_lock"
    /\ CanAcquire(lock, p)
    /\ lock' = p
    /\ pc' = [pc EXCEPT ![p] = "g_load"]
    /\ UNCHANGED <<file, apiKey, op, uargs, raw, result, respLocals>>
    /\ UNCHANGED storeVars
    /\ UNCHANGED handlerVars

\* A variant of get_settings that returns without leaving the with block.
GetLoad_KeepsLock(p) ==
    /\ pc[p] = "g_load"
    /\ lock' = lock
    /\ IF LoadRaises(file) \/ ~_load_raw(file).isdict
       THEN /\ pc' = [pc EXCEPT ![p] = "raised"]
            /\ UNCHANGED <<settings, result>>
       ELSE LET view == SettingsView(_load_raw(file)) IN
            IF op[p] = "respond"
            THEN /\ settings' = [settings EXCEPT ![p] = view]
                 /\ pc' = [pc EXCEPT ![p] = "r_main"]
                 /\ UNCHANGED result
            ELSE /\ result' = [result EXCEPT ![p] = view]
                 /\ pc' = [pc EXCEPT ![p] =
                             IF op[p] = "update" THEN "raised" ELSE "done"]
                 /\ UNCHANGED settings
    /\ UNCHANGED <<file, apiKey, op, uargs, raw, question, history, qtype,
                   messages, cands, idx, last404, sent, outcomes, reply>>
    /\ UNCHANGED storeVars
    /\ UNCHANGED handlerVars

\* get_settings: load, build the dict, leave the with block, return.  The
\* caller is the API handler, get_chat_response or update_settings (whose
\* own with block then releases a lock that is no longer held, and raises).
\* An exception of json.load() that _load_raw does not catch, and the
\* AttributeError of raw.get on a value that is no dict, leave the with
\* block and the call.
GetLoad(p) ==
    /\ pc[p] = "g_load"
    /\ lock' = 0
    /\ IF LoadRaises(file) \/ ~_load_raw(file).isdict
       THEN /\ pc' = [pc EXCEPT ![p] = "raised"]
            /\ UNCHANGED <<settings, result>>
       ELSE LET view == SettingsView(_load_raw(file)) IN
            IF op[p] = "respond"
            THEN /\ settings' = [settings EXCEPT ![p] = view]
                 /\ pc' = [pc EXCEPT ![p] = "r_main"]
                 /\ UNCHANGED result
            ELSE /\ result' = [result EXCEPT ![p] = view]
                 /\ pc' = [pc EXCEPT ![p] =
                             IF op[p] = "update" THEN "raised" ELSE "done"]
                 /\ UNCHANGED settings
    /\ UNCHANGED <<file, apiKey, op, uargs, raw, question, history, qtype,
                   messages, cands, idx, last404, sent, outcomes, reply>>
    /\ UNCHANGED storeVars
    /\ UNCHANGED handlerVars

\* update_settings: with _lock
UpdLock(p) ==
    /\ pc[p] = "u_lock"
    /\ CanAcquire(lock, p)
    /\ lock' = p
    /\ pc' = [pc EXCEPT ![p] = "u_load"]
    /\ UNCHANGED <<file, apiKey, op, uargs, raw, result, respLocals>>
    /\ UNCHANGED storeVars
    /\ UNCHANGED handlerVars

\* update_settings: raw = _load_raw(); an exception _load_raw does not
\* catch leaves the with block and the call.
UpdLoad(p) ==
    /\ pc[p] = "u_load"
    /\ IF LoadRaises(file)
       THEN /\ pc' = [pc EXCEPT ![p] = "raised"]
            /\ lock' = 0
            /\ UNCHANGED raw
       ELSE /\ raw' = [raw EXCEPT ![p] = _load_raw(file)]
            /\ pc' = [pc EXCEPT ![p] = "u_save"]
            /\ UNCHANGED lock
    /\ UNCHANGED <<file, apiKey, op, uargs, result, respLocals>>
    /\ UNCHANGED storeVars
    /\ UNCHANGED handlerVars

\* update_settings: the merge, _save_raw(raw), and the call of
\* get_settings() made inside the with block.  On a loaded value that is no
\* dict the first assignment raises TypeError (AttributeError for the
\* voice) and leaves the call; a call that assigns nothing saves the value
\* as it is.
UpdSave(p) ==
    /\ pc[p] = "u_save"
    /\ IF ~raw[p].isdict /\ Touches(uargs[p])
       THEN /\ pc' = [pc EXCEPT ![p] = "raised"]
            /\ lock' = 0
            /\ UNCHANGED file
       ELSE /\ file' = _save_raw(IF raw[p].isdict
                                 THEN MergeUpdate(raw[p], uargs[p])
                                 ELSE raw[p])
            /\ pc' = [pc EXCEPT ![p] = "g_lock"]
            /\ UNCHANGED lock
    /\ UNCHANGED <<apiKey, op, uargs, raw, result, respLocals>>
    /\ UNCHANGED storeVars
    /\ UNCHANGED handlerVars

\* get_chat_response after get_settings(): the credential check, the
\* classifier, the messages and the candidate list.
RespondMain(p) ==
    /\ pc[p] = "r_main"
    /\ LET pre == PreCheck(apiKey, question[p]) IN
       /\ qtype' = [qtype EXCEPT ![p] = pre.q_type]
       /\ IF pre.done
          THEN /\ reply' = [reply EXCEPT ![p] = pre.reply]
               /\ pc' = [pc EXCEPT ![p] = "done"]
               /\ UNCHANGED <<messages, cands, idx>>
          ELSE /\ messages' = [messages EXCEPT ![p] =
                                 BuildMessages(history[p], question[p])]
               /\ cands' = [cands EXCEPT ![p] =
                              _candidate_models(settings[p].model)]
               /\ idx' = [idx EXCEPT ![p] = 1]
               /\ pc' = [pc EXCEPT ![p] = "r_try"]
               /\ UNCHANGED reply
    /\ UNCHANGED <<file, lock, apiKey, op, uargs, raw, result, question,
                   history, settings, last404, sent, outcomes>>
    /\ UNCHANGED storeVars
    /\ UNCHANGED handlerVars

\* A variant of the loop that takes the settings from the file anew at each
\* iteration.
Request_RereadsSettings(p) ==
    LET now == SettingsView(_load_raw(file)) IN
    [model |-> cands[p][idx[p]],
     system |-> now.system_prompt,
     contents |-> messages[p],
     temperature |-> now.temperature,
     max_tokens |-> now.max_tokens]

\* The request one loop iteration sends.
Request(p) ==
    [model |-> cands[p][idx[p]],
     system |-> settings[p].system_prompt,
     contents |-> messages[p],
     temperature |-> settings[p].temperature,
     max_tokens |-> settings[p].max_tokens]

\* One iteration of the loop over the candidates: the request, the
\* upstream's answer, and what the code does with it (an exception that no
\* except clause catches would leave the call: "raise"); after the last
\* candidate's 404 the loop ends and the not-found reply is returned.
AttemptWith(p, answers) ==
    /\ pc[p] = "r_try"
    /\ \E o \in answers :
         LET m == cands[p][idx[p]]
             h == HandleOutcome(o, m)
         IN /\ sent' = [sent EXCEPT ![p] = Append(@, Request(p))]
            /\ outcomes' = [outcomes EXCEPT ![p] = Append(@, o)]
            /\ IF h.act = "return"
               THEN /\ reply' = [reply EXCEPT ![p] = h.reply]
                    /\ pc' = [pc EXCEPT ![p] = "done"]
                    /\ UNCHANGED <<idx, last404>>
               ELSE IF h.act = "raise"
               THEN /\ pc' = [pc EXCEPT ![p] = "raised"]
                    /\ UNCHANGED <<idx, last404, reply>>
               ELSE /\ last404' = [last404 EXCEPT ![p] = Some(m)]
                    /\ IF idx[p] < Len(cands[p])
                       THEN /\ idx' = [idx EXCEPT ![p] = @ + 1]
                            /\ UNCHANGED <<pc, reply>>
                       ELSE /\ reply' = [reply EXCEPT ![p] =
                                   MsgNotFound(NotFoundName(Some(m),
                                                            settings[p].model))]
                            /\ pc' = [pc EXCEPT ![p] = "done"]
                            /\ UNCHANGED idx
    /\ UNCHANGED <<file, lock, apiKey, op, uargs, raw, result, question,
                   history, settings, qtype, messages, cands>>
    /\ UNCHANGED storeVars
    /\ UNCHANGED handlerVars

Attempt(p) == AttemptWith(p, Outcomes)

\* classify_question(text), called on its own.
ClassifyCall(p) ==
    /\ pc[p] = "classify"
    /\ qtype' = [qtype EXCEPT ![p] = classify_question(question[p])]
    /\ pc' = [pc EXCEPT ![p] = "done"]
    /\ UNCHANGED <<file, lock, apiKey, op, uargs, raw, result, question,
                   history, settings, messages, cands, idx, last404, sent,
                   outcomes, reply>>
    /\ UNCHANGED storeVars
    /\ UNCHANGED handlerVars

\* _candidate_models(primary), called on its own.
CandidatesCall(p) ==
    /\ pc[p] = "candidates"
    /\ cands' = [cands EXCEPT ![p] = _candidate_models(settings[p].model)]
    /\ pc' = [pc EXCEPT ![p] = "done"]
    /\ UNCHANGED <<file, lock, apiKey, op, uargs, raw, result, question,
                   history, settings, qtype, messages, idx, last404, sent,
                   outcomes, reply>>
    /\ UNCHANGED storeVars
    /\ UNCHANGED handlerVars

\* ------------------------------------------------------------- store.py
\* The values uuid.uuid4() can return.  A value is returned once only, and
\* no client knows a value before create_session has returned it.
AllUuids == <<"uuid-1", "uuid-2", "uuid-3", "uuid-4">>
Uuids == {AllUuids[i] : i \in 1..MaxSessions}

\* Session ids a client makes up: the empty string and an id never created.
ClientIds == {"", "unknown-id"}

\* The messages the callers append.
StoreMessages ==
    { [role |-> "user", content |-> <<"hello">>],
      [role |-> "assistant", content |-> <<"x">>] }

\* session_id in _sessions
HasSession(s, id) == id \in DOMAIN s

\* _sessions.get(session_id, [])
SessionsGet(s, id) == IF id \in DOMAIN s THEN s[id] ELSE <<>>

\* _sessions[session_id] = h
SessionsPut(s, id, h) ==
    [k \in DOMAIN s \cup {id} |-> IF k = id THEN h ELSE s[k]]

\* A variant of append_message that appends to every session.
AppendTo_All(s, id, m) ==
    [k \in DOMAIN s \cup {id} |-> Append(SessionsGet(s, k), m)]

\* A variant of append_message that puts the message first.
AppendTo_Front(s, id, m) == SessionsPut(s, id, <<m>> \o SessionsGet(s, id))

\* A variant of append_message that leaves an id that is no key alone.
AppendTo_ExistingOnly(s, id, m) ==
    IF id \in DOMAIN s THEN SessionsPut(s, id, Append(s[id], m)) ELSE s

\* append_message under the lock: create the session if absent, append.
AppendTo(s, id, m) == SessionsPut(s, id, Append(SessionsGet(s, id), m))

\* A variant of the test of get_or_create_session that accepts any non-empty
\* id.
Reuses_AnyId(s, a) == ~IsNone(a) /\ a[1] # ""

\* session_id and session_id in _sessions
Reuses(s, a) == ~IsNone(a) /\ a[1] # "" /\ HasSession(s, a[1])

\* A call of a store function begins: the locals of the thread start afresh.
BeginStore(p, o, first, a, m) ==
    /\ Begin(p, o, first)
    /\ uargs' = [uargs EXCEPT ![p] = NoArgs]
    /\ question' = [question EXCEPT ![p] = <<>>]
    /\ history' = [history EXCEPT ![p] = <<>>]
    /\ session_id' = [session_id EXCEPT ![p] = a]
    /\ sid' = [sid EXCEPT ![p] = None]
    /\ msg' = [msg EXCEPT ![p] = m]
    /\ UNCHANGED handlerVars

\* Calls under way that may still ask for a uuid.
MayAllocate == {q \in Threads : pc[q] \in {"goc_check", "c_uuid"}}

\* Appends to the session id that are under way.
Appending(id) ==
    {q \in Threads : pc[q] \in {"a_lock", "a_body"} /\ session_id[q] = Some(id)}

\* create_session()
StartCreate(p) ==
    /\ Cardinality(issued) + Cardinality(MayAllocate) < MaxSessions
    /\ BeginStore(p, "create", "c_uuid", None, NoMessage)

\* get_history(session_id)
StartGetHistory(p) ==
    \E id \in DOMAIN sessions \cup {"unknown-id"} :
        BeginStore(p, "get_history", "h_lock", Some(id), NoMessage)

\* append_message(session_id, role, content)
StartAppend(p) ==
    \E id \in DOMAIN sessions \cup {"unknown-id"} : \E m \in StoreMessages :
        /\ Len(SessionsGet(sessions, id)) + Cardinality(Appending(id))
              < MaxMessages
        /\ BeginStore(p, "append", "a_lock", Some(id), m)

\* get_or_create_session(session_id)
StartGetOrCreate(p) ==
    /\ Cardinality(issued) + Cardinality(MayAllocate) < MaxSessions
    /\ \E a \in {None} \cup {Some(id) : id \in DOMAIN sessions \cup ClientIds} :
          BeginStore(p, "get_or_create", "goc_check", a, NoMessage)

\* get_or_create_session: the test, made without the lock; the given id is
\* returned, or create_session() is called.
GocCheck(p) ==
    /\ pc[p] = "goc_check"
    /\ IF Reuses(sessions, session_id[p])
       THEN /\ sid' = [sid EXCEPT ![p] = session_id[p]]
            /\ pc' = [pc EXCEPT ![p] = "done"]
       ELSE /\ pc' = [pc EXCEPT ![p] = "c_uuid"]
            /\ UNCHANGED sid
    /\ UNCHANGED <<file, lock, apiKey, op, uargs, raw, result, respLocals,
                   sessions, storeLock, issued, session_id, msg>>
    /\ UNCHANGED handlerVars

\* create_session: sid = str(uuid.uuid4())
CreateUuid(p) ==
    /\ pc[p] = "c_uuid"
    /\ \E u \in Uuids \ issued :
          /\ sid' = [sid EXCEPT ![p] = Some(u)]
          /\ issued' = issued \cup {u}
    /\ pc' = [pc EXCEPT ![p] = "c_lock"]
    /\ UNCHANGED <<file, lock, apiKey, op, uargs, raw, result, respLocals,
                   sessions, storeLock, session_id, msg>>
    /\ UNCHANGED handlerVars

\* with _lock (store.py)
StoreAcquire(p, at, to) ==
    /\ pc[p] = at
    /\ CanAcquire(storeLock, p)
    /\ storeLock' = p
    /\ pc' = [pc EXCEPT ![p] = to]
    /\ UNCHANGED <<file, lock, apiKey, op, uargs, raw, result, respLocals,
                   sessions, issued, session_id, sid, msg>>
    /\ UNCHANGED handlerVars

CreateLock(p) == StoreAcquire(p, "c_lock", "c_body")
HistLock(p) == StoreAcquire(p, "h_lock", "h_body")
AppLock(p) == StoreAcquire(p, "a_lock", "a_body")

\* create_session: _sessions[sid] = []; the lock is released; return sid
CreateBody(p) ==
    /\ pc[p] = "c_body"
    /\ sessions' = SessionsPut(sessions, sid[p][1], <<>>)
    /\ storeLock' = 0
    /\ pc' = [pc EXCEPT ![p] = "done"]
    /\ UNCHANGED <<file, lock, apiKey, op, uargs, raw, result, respLocals,
                   issued, session_id, sid, msg>>
    /\ UNCHANGED handlerVars

\* get_history: return list(_sessions.get(session_id, []))
HistBody(p) ==
    /\ pc[p] = "h_body"
    /\ history' = [history EXCEPT ![p] = SessionsGet(sessions, session_id[p][1])]
    /\ storeLock' = 0
    /\ pc' = [pc EXCEPT ![p] = "done"]
    /\ UNCHANGED <<file, lock, apiKey, op, uargs, raw, result, question,
                   settings, qtype, messages, cands, idx, last404, sent,
                   outcomes, reply, sessions, issued, session_id, sid, msg>>
    /\ UNCHANGED handlerVars

\* append_message: the body of the with block
AppBody(p) ==
    /\ pc[p] = "a_body"
    /\ sessions' = AppendTo(sessions, session_id[p][1], msg[p])
    /\ storeLock' = 0
    /\ pc' = [pc EXCEPT ![p] = "done"]
    /\ UNCHANGED <<file, lock, apiKey, op, uargs, raw, result, respLocals,
                   issued, session_id, sid, msg>>
    /\ UNCHANGED handlerVars

\* A step of a store function that is under way.
StoreStep(p) ==
    \/ GocCheck(p)
    \/ CreateUuid(p)
    \/ CreateLock(p)
    \/ CreateBody(p)
    \/ HistLock(p)
    \/ HistBody(p)
    \/ AppLock(p)
    \/ AppBody(p)

\* ------------------------------------------------- main.py: POST /api/chat
MSG_PLEASE_TYPE ==
    <<"Please type a question. I'm here to provide educational ",
      "information and support.">>

\* The messages clients post: blank, answered by the LLM, answered by the
\* pre-filter.
ChatMessages == { <<" ">>, <<"hello">>, <<" ", "STROKE">> }

\* The file holds voice settings with enabled = true.
VoiceOnRaw ==
    [EmptyRaw EXCEPT !.voice =
        Some([isdict |-> TRUE, d |-> [enabled |-> "True"]])]

\* The upstream's answers to the attempts of chat requests: a response with
\* text, a 404, which moves on to the next candidate, and a failure.
ChatOutcomes ==
    { Ok(<< <<"A">> >>), Http(404, TRUE, Some("model not found")), Transport }

\* The thread is not inside a chat request.
Free(p) == stage[p] \in {"none", "end"}

\* The chat handler calls a function: the callee starts at its first step.
\* get_chat_response starts with fresh locals.
Call(p, o, first) ==
    /\ op' = [op EXCEPT ![p] = o]
    /\ pc' = [pc EXCEPT ![p] = first]

\* The call the chat handler made has returned.
CallReturned(p, at) == stage[p] = at /\ pc[p] = "done"

\* chat(): message = (request.message or "").strip(), and the call of
\* get_or_create_session(request.session_id) on either branch.
StartChat(p) ==
    /\ Free(p)
    /\ served < MaxChats
    /\ Cardinality(issued) + Cardinality(MayAllocate) < MaxSessions
    /\ Begin(p, "get_or_create", "goc_check")
    /\ uargs' = [uargs EXCEPT ![p] = NoArgs]
    /\ history' = [history EXCEPT ![p] = <<>>]
    /\ sid' = [sid EXCEPT ![p] = None]
    /\ msg' = [msg EXCEPT ![p] = NoMessage]
    /\ chat_session_id' = [chat_session_id EXCEPT ![p] = None]
    /\ speech_result' = [speech_result EXCEPT ![p] = None]
    /\ served' = served + 1
    /\ \E m \in ChatMessages :
          /\ question' = [question EXCEPT ![p] = Strip(m)]
          /\ stage' = [stage EXCEPT ![p] =
                          IF Strip(m) = <<>> THEN "empty" ELSE "session"]
    /\ \E a \in {None} \cup {Some(id) : id \in DOMAIN sessions \cup {"unknown-id"}} :
          session_id' = [session_id EXCEPT ![p] = a]

\* chat(): the blank message is answered with the fixed text and the
\* session id.
ChatEmpty(p) ==
    /\ CallReturned(p, "empty")
    /\ chat_session_id' = [chat_session_id EXCEPT ![p] = sid[p]]
    /\ reply' = [reply EXCEPT ![p] = MSG_PLEASE_TYPE]
    /\ stage' = [stage EXCEPT ![p] = "end"]
    /\ UNCHANGED <<file, lock, apiKey, pc, op, uargs, raw, result, question,
                   history, settings, qtype, messages, cands, idx, last404,
                   sent, outcomes, storeVars, speech_result, served>>

\* chat(): session_id = get_or_create_session(...); get_history(session_id)
ChatHistory(p) ==
    /\ CallReturned(p, "session")
    /\ chat_session_id' = [chat_session_id EXCEPT ![p] = sid[p]]
    /\ session_id' = [session_id EXCEPT ![p] = sid[p]]
    /\ Call(p, "get_history", "h_lock")
    /\ stage' = [stage EXCEPT ![p] = "history"]
    /\ UNCHANGED <<file, lock, apiKey, uargs, raw, result, respLocals,
                   sessions, storeLock, issued, sid, msg, speech_result,
                   served>>

\* chat(): response = get_chat_response(message, history)
ChatRespond(p) ==
    /\ CallReturned(p, "history")
    /\ Call(p, "respond", "g_lock")
    /\ stage' = [stage EXCEPT ![p] = "response"]
    /\ UNCHANGED <<file, lock, apiKey, uargs, raw, result, respLocals,
                   storeVars, chat_session_id, speech_result, served>>

\* chat(): _synthesize_for_session(text=response, session_id=session_id),
\* which begins with get_or_create_session(session_id).
ChatSynthesize(p) ==
    /\ CallReturned(p, "response")
    /\ session_id' = [session_id EXCEPT ![p] = chat_session_id[p]]
    /\ sid' = [sid EXCEPT ![p] = None]
    /\ Call(p, "get_or_create", "goc_check")
    /\ stage' = [stage EXCEPT ![p] = "synth_session"]
    /\ UNCHANGED <<file, lock, apiKey, uargs, raw, result, respLocals,
                   sessions, storeLock, issued, msg, chat_session_id,
                   speech_result, served>>

\* chat(): append_message(session_id, "user", message)
CallAppendUser(p) ==
    /\ session_id' = [session_id EXCEPT ![p] = chat_session_id[p]]
    /\ msg' = [msg EXCEPT ![p] = [role |-> "user", content |-> question[p]]]
    /\ Call(p, "append", "a_lock")
    /\ stage' = [stage EXCEPT ![p] = "user"]

\* _synthesize_for_session: clean_text = (text or "").strip(); without text
\* it returns at once, else settings = get_settings().
SynthSettings(p) ==
    /\ CallReturned(p, "synth_session")
    /\ IF Strip(reply[p]) = <<>>
       THEN /\ CallAppendUser(p)
            /\ UNCHANGED result
       ELSE /\ Call(p, "get", "g_lock")
            /\ result' = [result EXCEPT ![p] = DefaultView]
            /\ stage' = [stage EXCEPT ![p] = "synth_settings"]
            /\ UNCHANGED <<session_id, msg>>
    /\ UNCHANGED <<file, lock, apiKey, uargs, raw, respLocals, sessions,
                   storeLock, issued, sid, chat_session_id, speech_result,
                   served>>

\* _synthesize_for_session: voice_settings = dict(settings.get("voice", {}))
\* and the call of generate_response_audio is next.
SynthReady(p) ==
    /\ CallReturned(p, "synth_settings")
    /\ stage' = [stage EXCEPT ![p] = "audio"]
    /\ UNCHANGED <<file, lock, apiKey, pc, op, uargs, raw, result,
                   respLocals, storeVars, chat_session_id, speech_result,
                   served>>

\* generate_response_audio(): None when the voice is not enabled or the
\* synthesis fails, else the URL of the audio file; then the chat handler
\* goes on to append the user's message.
SynthAudio(p) ==
    /\ stage[p] = "audio"
    /\ \E url \in {None, Some("audio")} :
          /\ (result[p].voice.enabled # "True") => IsNone(url)
          /\ speech_result' = [speech_result EXCEPT ![p] = url]
    /\ CallAppendUser(p)
    /\ UNCHANGED <<file, lock, apiKey, uargs, raw, result, respLocals,
                   sessions, storeLock, issued, sid, chat_session_id,
                   served>>

\* chat(): append_message(session_id, "assistant", response)
ChatAppendAssistant(p) ==
    /\ CallReturned(p, "user")
    /\ msg' = [msg EXCEPT ![p] = [role |-> "assistant", content |-> reply[p]]]
    /\ Call(p, "append", "a_lock")
    /\ stage' = [stage EXCEPT ![p] = "assistant"]
    /\ UNCHANGED <<file, lock, apiKey, uargs, raw, result, respLocals,
                   sessions, storeLock, issued, session_id, sid,
                   chat_session_id, speech_result, served>>

\* chat(): return ChatResponse(...)
ChatReturn(p) ==
    /\ CallReturned(p, "assistant")
    /\ stage' = [stage EXCEPT ![p] = "end"]
    /\ UNCHANGED <<file, lock, apiKey, pc, op, uargs, raw, result,
                   respLocals, storeVars, chat_session_id, speech_result,
                   served>>

\* One iteration of the loop of get_chat_response inside a chat request.
ChatAttempt(p) == AttemptWith(p, ChatOutcomes)

\* POST /api/chat/sessions, taken by a thread that is not inside a chat
\* request.
ServeCreate(p) == Free(p) /\ StartCreate(p)

Next ==
    \E p \in Threads :
        \/ StartGet(p)
        \/ StartUpdate(p)
        \/ StartRespond(p)
        \/ GetLock(p)
        \/ GetLoad(p)
        \/ UpdLock(p)
        \/ UpdLoad(p)
        \/ UpdSave(p)
        \/ RespondMain(p)
        \/ Attempt(p)

Spec == Init /\ [][Next]_vars

\* The settings store alone: threads serving GET and PUT /api/settings.  A
\* thread that can run is eventually scheduled, and a thread waiting for the
\* lock gets it if the lock is free again and again.
SettingsStep(p) ==
    \/ GetLock(p)
    \/ GetLoad(p)
    \/ UpdLock(p)
    \/ UpdLoad(p)
    \/ UpdSave(p)

SettingsNext ==
    \E p \in Threads :
        \/ StartGet(p)
        \/ StartUpdate(p)
        \/ GetLock(p)
        \/ GetLoad(p)
        \/ UpdLock(p)
        \/ UpdLoad(p)
        \/ UpdSave(p)

SettingsSpec ==
    Init /\ [][SettingsNext]_vars /\ \A p \in Threads : SF_vars(SettingsStep(p))

\* The server process is stopped and started again: the module state is
\* created anew (the lock is free, no request is under way) and
\* data/settings.json is what the last process left.
Restart ==
    /\ lock' = 0
    /\ pc' = [p \in Threads |-> "idle"]
    /\ op' = [p \in Threads |-> "none"]
    /\ uargs' = [p \in Threads |-> NoArgs]
    /\ raw' = [p \in Threads |-> EmptyRaw]
    /\ result' = [p \in Threads |-> DefaultView]
    /\ question' = [p \in Threads |-> <<>>]
    /\ history' = [p \in Threads |-> <<>>]
    /\ settings' = [p \in Threads |-> DefaultView]
    /\ qtype' = [p \in Threads |-> "none"]
    /\ messages' = [p \in Threads |-> <<>>]
    /\ cands' = [p \in Threads |-> <<>>]
    /\ idx' = [p \in Threads |-> 0]
    /\ last404' = [p \in Threads |-> None]
    /\ sent' = [p \in Threads |-> <<>>]
    /\ outcomes' = [p \in Threads |-> <<>>]
    /\ reply' = [p \in Threads |-> <<>>]
    /\ sessions' = <<>>
    /\ storeLock' = 0
    /\ session_id' = [p \in Threads |-> None]
    /\ sid' = [p \in Threads |-> None]
    /\ msg' = [p \in Threads |-> NoMessage]
    /\ stage' = [p \in Threads |-> "none"]
    /\ chat_session_id' = [p \in Threads |-> None]
    /\ speech_result' = [p \in Threads |-> None]
    /\ UNCHANGED <<file, apiKey, issued, served>>

\* No request is under way.
Quiet == \A q \in Threads : pc[q] \in {"idle", "done", "raised"}

\* A request for the settings that arrives when no other is under way.
ServeGet(p) == Quiet /\ StartGet(p)
ServeUpdate(p) == Quiet /\ StartUpdate(p)

\* The settings store over the life of its file: GET and PUT /api/settings
\* served one at a time, by one server process after another, starting from
\* any file a process may find.
InitPersist ==
    /\ file \in FoundFiles
    /\ lock = 0
    /\ apiKey = "key"
    /\ IdleThreads

PersistNext ==
    \/ Restart
    \/ \E p \in Threads :
        \/ ServeGet(p)
        \/ ServeUpdate(p)
        \/ GetLock(p)
        \/ GetLoad(p)
        \/ UpdLock(p)
        \/ UpdLoad(p)
        \/ UpdSave(p)

PersistSpec == InitPersist /\ [][PersistNext]_vars

\* The session store alone: threads calling its four functions in any
\* interleaving.
InitStore ==
    /\ file = MissingFile
    /\ lock = 0
    /\ apiKey = "key"
    /\ IdleThreads

StoreNext ==
    \E p \in Threads :
        \/ StartCreate(p)
        \/ StartGetHistory(p)
        \/ StartAppend(p)
        \/ StartGetOrCreate(p)
        \/ GocCheck(p)
        \/ CreateUuid(p)
        \/ CreateLock(p)
        \/ CreateBody(p)
        \/ HistLock(p)
        \/ HistBody(p)
        \/ AppLock(p)
        \/ AppBody(p)

StoreSpec == InitStore /\ [][StoreNext]_vars

\* Chat requests, and requests for a new session, served by the threads in
\* any interleaving.
InitHandler ==
    /\ file \in {MissingFile, JsonFile(VoiceOnRaw)}
    /\ lock = 0
    /\ apiKey = "key"
    /\ IdleThreads

HandlerNext ==
    \E p \in Threads :
        \/ StartChat(p)
        \/ ServeCreate(p)
        \/ ChatEmpty(p)
        \/ ChatHistory(p)
        \/ ChatRespond(p)
        \/ ChatSynthesize(p)
        \/ SynthSettings(p)
        \/ SynthReady(p)
        \/ SynthAudio(p)
        \/ ChatAppendAssistant(p)
        \/ ChatReturn(p)
        \/ GocCheck(p)
        \/ CreateUuid(p)
        \/ CreateLock(p)
        \/ CreateBody(p)
        \/ HistLock(p)
        \/ HistBody(p)
        \/ AppLock(p)
        \/ AppBody(p)
        \/ GetLock(p)
        \/ GetLoad(p)
        \/ RespondMain(p)
        \/ ChatAttempt(p)

HandlerSpec == InitHandler /\ [][HandlerNext]_vars

\* One call of get_chat_response, for every question, history, settings
\* file and credential.
InitChat ==
    /\ file \in ChatFiles
    /\ lock = 0
    /\ apiKey \in ApiKeys
    /\ \E q \in Questions, h \in Histories :
         /\ question = [p \in Threads |-> IF p = 1 THEN q ELSE <<>>]
         /\ history = [p \in Threads |-> IF p = 1 THEN h ELSE <<>>]
    /\ pc = [p \in Threads |-> IF p = 1 THEN "g_lock" ELSE "idle"]
    /\ op = [p \in Threads |-> IF p = 1 THEN "respond" ELSE "none"]
    /\ uargs = [p \in Threads |-> NoArgs]
    /\ raw = [p \in Threads |-> EmptyRaw]
    /\ result = [p \in Threads |-> DefaultView]
    /\ settings = [p \in Threads |-> DefaultView]
    /\ qtype = [p \in Threads |-> "none"]
    /\ messages = [p \in Threads |-> <<>>]
    /\ cands = [p \in Threads |-> <<>>]
    /\ idx = [p \in Threads |-> 0]
    /\ last404 = [p \in Threads |-> None]
    /\ sent = [p \in Threads |-> <<>>]
    /\ outcomes = [p \in Threads |-> <<>>]
    /\ reply = [p \in Threads |-> <<>>]
    /\ StoreIdle
    /\ HandlerIdle

ChatNext ==
    \E p \in Threads :
        \/ GetLock(p)
        \/ GetLoad(p)
        \/ RespondMain(p)
        \/ Attempt(p)

ChatSpec == InitChat /\ [][ChatNext]_vars

\* classify_question on every text up to MaxTextLen atoms.
InitClassify ==
    /\ file = MissingFile
    /\ lock = 0
    /\ apiKey = ""
    /\ \E t \in Texts :
         question = [p \in Threads |-> IF p = 1 THEN t ELSE <<>>]
    /\ pc = [p \in Threads |-> IF p = 1 THEN "classify" ELSE "idle"]
    /\ op = [p \in Threads |-> IF p = 1 THEN "classify" ELSE "none"]
    /\ uargs = [p \in Threads |-> NoArgs]
    /\ raw = [p \in Threads |-> EmptyRaw]
    /\ result = [p \in Threads |-> DefaultView]
    /\ history = [p \in Threads |-> <<>>]
    /\ settings = [p \in Threads |-> DefaultView]
    /\ qtype = [p \in Threads |-> "none"]
    /\ messages = [p \in Threads |-> <<>>]
    /\ cands = [p \in Threads |-> <<>>]
    /\ idx = [p \in Threads |-> 0]
    /\ last404 = [p \in Threads |-> None]
    /\ sent = [p \in Threads |-> <<>>]
    /\ outcomes = [p \in Threads |-> <<>>]
    /\ reply = [p \in Threads |-> <<>>]
    /\ StoreIdle
    /\ HandlerIdle

ClassifyNext == \E p \in Threads : ClassifyCall(p)

ClassifySpec == InitClassify /\ [][ClassifyNext]_vars

\* _candidate_models on every model name up to MaxNameLen atoms; the name
\* is the model of the thread's settings.
InitCandidates ==
    /\ file = MissingFile
    /\ lock = 0
    /\ apiKey = ""
    /\ \E m \in ModelNames :
         settings = [p \in Threads |->
                        IF p = 1 THEN [DefaultView EXCEPT !.model = m]
                        ELSE DefaultView]
    /\ pc = [p \in Threads |-> IF p = 1 THEN "candidates" ELSE "idle"]
    /\ op = [p \in Threads |-> IF p = 1 THEN "candidates" ELSE "none"]
    /\ uargs = [p \in Threads |-> NoArgs]
    /\ raw = [p \in Threads |-> EmptyRaw]
    /\ result = [p \in Threads |-> DefaultView]
    /\ question = [p \in Threads |-> <<>>]
    /\ history = [p \in Threads |-> <<>>]
    /\ qtype = [p \in Threads |-> "none"]
    /\ messages = [p \in Threads |-> <<>>]
    /\ cands = [p \in Threads |-> <<>>]
    /\ idx = [p \in Threads |-> 0]
    /\ last404 = [p \in Threads |-> None]
    /\ sent = [p \in Threads |-> <<>>]
    /\ outcomes = [p \in Threads |-> <<>>]
    /\ reply = [p \in Threads |-> <<>>]
    /\ StoreIdle
    /\ HandlerIdle

CandidatesNext == \E p \in Threads : CandidatesCall(p)

CandidatesSpec == InitCandidates /\ [][CandidatesNext]_vars

\* ------------------------------------------------------------- claims

\* C1: every update_settings call that starts while the settings lock is
\* free eventually returns, and the lock is then not held by the caller.
C1_UpdateReturnsAndReleases ==
    \A p \in Threads :
        (op[p] = "update" /\ pc[p] = "u_lock" /\ lock = 0)
            ~> (op[p] = "update" /\ pc[p] = "done" /\ lock # p)

\* The scalar fields update_settings stores as supplied (after clamping).
ScalarFields == {"model", "temperature", "max_tokens"}

\* Thread q has written field k of the settings file.
HasSaved(q, k) ==
    /\ op[q] = "update"
    /\ pc[q] \in {"g_lock", "g_load", "raised", "done"}
    /\ ~IsNone(uargs[q][k])

\* The file holds, for every scalar field the call with arguments a
\* supplied, the value that call writes, unless another call wrote the field.
KeepsUpdate(p, a) ==
    \A k \in ScalarFields :
        IsNone(a[k])
        \/ _load_raw(file)[k] = MergeUpdate(EmptyRaw, a)[k]
        \/ \E q \in Threads \ {p} : HasSaved(q, k)

\* C2: no update is lost: whatever the interleaving of update_settings
\* calls, the value each call writes reaches the settings file and stays
\* there unless another call overwrites it.
C2_NoLostUpdate ==
    \A p \in Threads : \A a \in UpdateArgs :
        (op[p] = "update" /\ pc[p] = "u_lock" /\ uargs[p] = a)
            ~> KeepsUpdate(p, a)

\* Some pattern of the list matches the text as given, case-insensitively.
MatchesEmergency(text) ==
    \E k \in 1..Len(EMERGENCY_PATTERNS) : Search(EMERGENCY_PATTERNS[k], text)

MatchesClinical(text) ==
    \E k \in 1..Len(CLINICAL_PATTERNS) : Search(CLINICAL_PATTERNS[k], text)

\* C4: classify_question returns EMERGENCY when an emergency pattern matches
\* the text, CLINICAL when none does and a clinical pattern matches, and
\* EDUCATIONAL otherwise (so also for an empty or whitespace-only text).
C4_ClassifyByPatterns ==
    \A p \in Threads :
        (op[p] = "classify" /\ pc[p] = "done") =>
            qtype[p] = IF MatchesEmergency(question[p]) THEN EMERGENCY
                       ELSE IF MatchesClinical(question[p]) THEN CLINICAL
                       ELSE EDUCATIONAL

\* ---- one call of get_chat_response
Responding(p) == op[p] = "respond"
Returned(p) == op[p] = "respond" /\ pc[p] = "done"

Is404(o) == o.kind = "http" /\ o.code = 404
Is403(o) == o.kind = "http" /\ o.code = 403
Is400(o) == o.kind = "http" /\ o.code = 400

\* The body carries a non-empty error detail.
HasDetail(o) == o.json /\ ~IsNone(o.msg) /\ o.msg[1] # ""

\* A 2xx response with at least one non-empty text part.
HasText(o) ==
    /\ o.kind = "ok"
    /\ o.json
    /\ \E i \in 1..Len(o.cands) : \E j \in 1..Len(o.cands[i]) :
          o.cands[i][j] # ""

\* Every answer so far was a 404.
All404(os) == \A i \in 1..Len(os) : Is404(os[i])

\* The replies that report a failure.
IsNotFoundReply(r) == Len(r) >= 2 /\ r[1] = SORRY /\ r[2] = "Gemini model '"
IsErrorReply(r) == r = MSG_NO_TEXT \/ (r # <<>> /\ r[1] = SORRY)

\* C3: with a credential, a question that classifies as EMERGENCY or
\* CLINICAL gets the matching fixed reply and no request is ever sent to the
\* LLM, whatever the history and the settings.
C3_PrefilterBlocksLLM ==
    \A p \in Threads :
        (Responding(p) /\ apiKey # ""
            /\ classify_question(question[p]) \in {EMERGENCY, CLINICAL}) =>
            /\ sent[p] = <<>>
            /\ pc[p] # "r_try"
            /\ pc[p] = "done" =>
                 reply[p] = IF classify_question(question[p]) = EMERGENCY
                            THEN MSG_EMERGENCY
                            ELSE MSG_CLINICAL

C3_Witness ==
    \E p \in Threads :
        /\ Returned(p)
        /\ apiKey # ""
        /\ classify_question(question[p]) = CLINICAL
        /\ reply[p] = MSG_CLINICAL
        /\ history[p] # <<>>
        /\ settings[p] # DefaultView

\* C5: without a credential every question gets the misconfiguration reply;
\* the classifier is not called and no request is sent.
C5_NoCredential ==
    \A p \in Threads :
        (Responding(p) /\ apiKey = "") =>
            /\ sent[p] = <<>>
            /\ qtype[p] = "none"
            /\ pc[p] # "r_try"
            /\ pc[p] = "done" => reply[p] = MSG_NO_KEY

C5_Witness ==
    \E p \in Threads :
        /\ Returned(p)
        /\ apiKey = ""
        /\ classify_question(question[p]) = EMERGENCY
        /\ reply[p] = MSG_NO_KEY

\* C6: the attempts follow the candidate list, one per candidate and in its
\* order; an attempt is made only after every earlier one answered 404; and
\* when the last answer is a success with text, that text is the reply.
C6_FallbackOrder ==
    \A p \in Threads :
        (Responding(p) /\ pc[p] \in {"r_try", "done"}) =>
            LET c == _candidate_models(settings[p].model)
                n == Len(sent[p])
            IN /\ n <= Len(c)
               /\ Len(outcomes[p]) = n
               /\ \A i \in 1..n : sent[p][i].model = c[i]
               /\ \A i, j \in 1..n : i # j => sent[p][i].model # sent[p][j].model
               /\ \A i \in 1..(n - 1) : Is404(outcomes[p][i])
               /\ (pc[p] = "r_try") => (idx[p] = n + 1 /\ All404(outcomes[p]))
               /\ (pc[p] = "done" /\ n > 0 /\ HasText(outcomes[p][n])) =>
                     /\ reply[p] = JoinLines(TextParts(outcomes[p][n].cands))
                     /\ ~IsErrorReply(reply[p])

C6_Witness ==
    \E p \in Threads :
        /\ Returned(p)
        /\ Len(sent[p]) = 3
        /\ Is404(outcomes[p][1])
        /\ Is404(outcomes[p][2])
        /\ HasText(outcomes[p][3])
        /\ reply[p] = <<"A", "\n", "B">>

\* C7: when every candidate answered 404, all candidates were attempted and
\* the reply names the last of them; the not-found reply is given in no
\* other case.
C7_AllNotFound ==
    \A p \in Threads :
        Returned(p) =>
            LET c == _candidate_models(settings[p].model)
                n == Len(outcomes[p])
            IN /\ (n > 0 /\ All404(outcomes[p])) =>
                     /\ n = Len(c)
                     /\ sent[p][n].model = c[Len(c)]
                     /\ reply[p] = MsgNotFound(c[Len(c)])
               /\ IsNotFoundReply(reply[p]) =>
                     (n = Len(c) /\ All404(outcomes[p]))

C7_Witness ==
    \E p \in Threads :
        /\ Returned(p)
        /\ settings[p].model = <<>>
        /\ Len(outcomes[p]) = Len(FALLBACK_MODELS)
        /\ All404(outcomes[p])
        /\ reply[p] = MsgNotFound(<<"gemini-2.0-flash", "-lite">>)

\* C8: a 403 ends the call at once with the key-rejected reply, on the first
\* attempt or after 404s.
C8_KeyRejected ==
    \A p \in Threads :
        Responding(p) =>
            \A i \in 1..Len(outcomes[p]) :
                Is403(outcomes[p][i]) =>
                    /\ i = Len(outcomes[p])
                    /\ Len(sent[p]) = i
                    /\ pc[p] = "done"
                    /\ reply[p] = MSG_KEY_REJECTED

C8_Witness ==
    \E p \in Threads :
        /\ Returned(p)
        /\ Len(outcomes[p]) = 3
        /\ Is403(outcomes[p][3])
        /\ reply[p] = MSG_KEY_REJECTED

\* A transport error, a 2xx body the code cannot read, or a status that is
\* not 403, 404 or a 400 with a detail.
GenericFailure(o) ==
    \/ o.kind = "transport"
    \/ o.kind = "ok" /\ ~o.json
    \/ o.kind = "http" /\ ~Is403(o) /\ ~Is404(o) /\ ~(Is400(o) /\ HasDetail(o))

\* C9: a transport or unexpected error, and a status that is not 2xx, 403,
\* 404 or a 400 with a detail, end the call at once with the generic reply:
\* the candidate is not retried and no later candidate is attempted.
C9_GenericFailure ==
    \A p \in Threads :
        Responding(p) =>
            \A i \in 1..Len(outcomes[p]) :
                GenericFailure(outcomes[p][i]) =>
                    /\ i = Len(outcomes[p])
                    /\ Len(sent[p]) = i
                    /\ pc[p] = "done"
                    /\ reply[p] = MSG_GENERIC

C9_Witness ==
    \E p \in Threads :
        /\ Returned(p)
        /\ Len(outcomes[p]) = 2
        /\ outcomes[p][2].kind = "transport"
        /\ reply[p] = MSG_GENERIC

\* C10: a 400 ends the call at once: with the reply that embeds the
\* upstream's detail when the body has a non-empty one, with the generic
\* reply when it has none.
C10_BadRequest ==
    \A p \in Threads :
        Responding(p) =>
            \A i \in 1..Len(outcomes[p]) :
                Is400(outcomes[p][i]) =>
                    /\ i = Len(outcomes[p])
                    /\ Len(sent[p]) = i
                    /\ pc[p] = "done"
                    /\ reply[p] =
                         IF HasDetail(outcomes[p][i])
                         THEN <<SORRY, "Gemini request error: ",
                                outcomes[p][i].msg[1]>>
                         ELSE MSG_GENERIC

C10_Witness ==
    \E p \in Threads :
        /\ Returned(p)
        /\ Len(outcomes[p]) = 2
        /\ Is400(outcomes[p][2])
        /\ HasDetail(outcomes[p][2])
        /\ reply[p] = <<SORRY, "Gemini request error: ", "bad request">>

\* The strings get_chat_response is written to return: the fixed replies,
\* the request-error reply around a non-empty detail, the not-found reply
\* around a model name, and the text of a 2xx answer.
IsDefinedReply(r, os) ==
    \/ r \in {MSG_NO_KEY, MSG_EMERGENCY, MSG_CLINICAL, MSG_NO_TEXT,
              MSG_KEY_REJECTED, MSG_GENERIC}
    \/ /\ Len(r) = 3
       /\ SubSeq(r, 1, 2) = <<SORRY, "Gemini request error: ">>
       /\ r[3] # ""
    \/ /\ IsNotFoundReply(r)
       /\ Len(r) > 4
       /\ SubSeq(r, Len(r) - 1, Len(r)) =
            <<"' was not found. ",
              "Please set model to 'gemini-1.5-flash-latest' in Settings.">>
    \/ /\ os # <<>>
       /\ HasText(os[Len(os)])
       /\ r = JoinLines(TextParts(os[Len(os)].cands))
       /\ r # <<>>

\* What is left of the call: the steps before the loop, and the candidates
\* not yet attempted.
StepsLeft(p) ==
    CASE pc[p] = "g_lock" -> 100
      [] pc[p] = "g_load" -> 99
      [] pc[p] = "r_main" -> 98
      [] pc[p] = "r_try" -> 1 + Len(cands[p]) - Len(sent[p])
      [] OTHER -> 0

\* C11: get_chat_response is total.  Whatever the question, the history and
\* the upstream's answers, the call never raises, always has a next step
\* until it has returned, makes at most one attempt per candidate model
\* (every step brings it closer to its end), and returns one of the defined
\* strings.
C11_Total ==
    /\ [](\A p \in Threads : Responding(p) =>
            /\ pc[p] # "raised"
            /\ pc[p] # "done" =>
                 ENABLED (GetLock(p) \/ GetLoad(p) \/ RespondMain(p) \/ Attempt(p))
            /\ pc[p] \in {"r_try", "done"} =>
                 /\ Len(sent[p]) <= Len(_candidate_models(settings[p].model))
                 /\ \A i, j \in 1..Len(sent[p]) :
                       i # j => sent[p][i].model # sent[p][j].model
            /\ pc[p] = "done" => IsDefinedReply(reply[p], outcomes[p]))
    /\ [][\A p \in Threads :
            (Responding(p) /\ pc[p] # "done") =>
                (StepsLeft(p)' < StepsLeft(p) \/ UNCHANGED vars)]_vars

\* Every candidate was attempted, the last answer was a 2xx body the code
\* cannot read, and the call returned the generic reply.
C11_Witness ==
    \E p \in Threads :
        /\ Returned(p)
        /\ Len(sent[p]) = Len(cands[p])
        /\ Len(cands[p]) = 7
        /\ outcomes[p][Len(outcomes[p])] = OkGarbage
        /\ reply[p] = MSG_GENERIC
        /\ history[p] # <<>>


\* ---- _candidate_models on its own
NoDuplicates(s) == \A i, j \in 1..Len(s) : i # j => s[i] # s[j]

\* The name without a leading "models/".
WithoutPrefix(name) ==
    IF name # <<>> /\ Head(name) = "models/" THEN Tail(name) ELSE name

\* The list the claim describes for the name n (its prefix already
\* removed): n, then n-latest unless n ends in -latest, then the fallback
\* models not among them, in their order; the fallback list when n is empty.
ListFor(n) ==
    LET front == IF n = <<>> THEN <<>>
                 ELSE IF n[Len(n)] = "-latest" THEN <<n>>
                 ELSE <<n, n \o <<"-latest">>>>
    IN front \o SelectSeq(FALLBACK_MODELS, LAMBDA m : ~InSeq(m, front))

\* C12 as stated: for every configured model name the list has no
\* duplicates and is the one described for the name with any "models/"
\* prefix removed.
C12_CandidatesAsStated ==
    \A p \in Threads :
        (op[p] = "candidates" /\ pc[p] = "done") =>
            /\ NoDuplicates(cands[p])
            /\ cands[p] = ListFor(WithoutPrefix(settings[p].model))

\* C12, amended: the list has no duplicates and is the one described for the
\* name first trimmed of surrounding whitespace and then relieved of a
\* leading "models/"; a name that is empty after that gives the fallback
\* list.
C12_Candidates ==
    \A p \in Threads :
        (op[p] = "candidates" /\ pc[p] = "done") =>
            /\ NoDuplicates(cands[p])
            /\ cands[p] = ListFor(WithoutPrefix(Strip(settings[p].model)))
            /\ cands[p] # <<>>
            /\ WithoutPrefix(Strip(settings[p].model)) = <<>> =>
                  cands[p] = FALLBACK_MODELS

\* A padded, prefixed name that is itself a fallback model: two fallback
\* models are already listed and are not appended again.
C12_Witness ==
    \E p \in Threads :
        /\ op[p] = "candidates"
        /\ pc[p] = "done"
        /\ settings[p].model = <<" ", "models/", "gemini-1.5-flash">>
        /\ cands[p] = << <<"gemini-1.5-flash">>,
                         <<"gemini-1.5-flash", "-latest">>,
                         <<"gemini-1.5-flash", "-8b">>,
                         <<"gemini-2.0-flash">>,
                         <<"gemini-2.0-flash", "-lite">> >>


\* ---- the payload of an attempt
\* One message of the history as a turn of the conversation.
AsTurn(m) ==
    [role |-> IF m.role = "assistant" THEN "model" ELSE "user",
     text |-> m.content]

\* The question as the final user turn.
FinalTurn(q) == [role |-> "user", text |-> q]

\* The system prompt the settings file configures.
ConfiguredPrompt ==
    IF file.kind = "json" /\ ~IsNone(file.data.system_prompt)
    THEN file.data.system_prompt[1]
    ELSE DEFAULT_SYSTEM_PROMPT

\* The messages of h that have a content, in their order.
RECURSIVE WithContent(_)
WithContent(h) ==
    IF h = <<>> THEN <<>>
    ELSE IF Head(h).content = <<>> THEN WithContent(Tail(h))
    ELSE <<Head(h)>> \o WithContent(Tail(h))

\* C13 as stated: for an educational question the payload of each attempt
\* carries the configured system prompt and a conversation of every message
\* of the history, in order and with the roles mapped, then the question.
C13_PayloadAsStated ==
    \A p \in Threads :
        (Responding(p) /\ classify_question(question[p]) = EDUCATIONAL) =>
            \A i \in 1..Len(sent[p]) :
                /\ sent[p][i].system = ConfiguredPrompt
                /\ sent[p][i].contents =
                     [k \in 1..Len(history[p]) |-> AsTurn(history[p][k])]
                        \o <<FinalTurn(question[p])>>

\* C13, amended: for an educational question the payload of each attempt
\* carries the configured system prompt and a conversation of every message
\* of the history that has a non-empty content, in the original order and
\* with assistant mapped to the model role and anything else to the user
\* role, then the question as the final user turn; a message without content
\* is left out.  With a credential every such call makes an attempt.
C13_Payload ==
    \A p \in Threads :
        (Responding(p) /\ classify_question(question[p]) = EDUCATIONAL) =>
            /\ \A i \in 1..Len(sent[p]) :
                 LET kept == WithContent(history[p]) IN
                 /\ sent[p][i].system = ConfiguredPrompt
                 /\ sent[p][i].contents =
                      [k \in 1..Len(kept) |-> AsTurn(kept[k])]
                         \o <<FinalTurn(question[p])>>
            /\ (pc[p] = "done" /\ apiKey # "") => sent[p] # <<>>

\* Two attempts for an educational question under a custom system prompt,
\* over a history of an assistant message without content and a message of
\* another role: the first is left out, the second is a user turn.
C13_Witness ==
    \E p \in Threads :
        /\ Returned(p)
        /\ question[p] = <<"x", "stroke">>
        /\ Len(history[p]) = 2
        /\ history[p][1] = [role |-> "assistant", content |-> <<>>]
        /\ history[p][2].role = "system"
        /\ Len(sent[p]) = 2
        /\ file = JsonFile(CustomRaw)
        /\ sent[p][2].system = "prompt:custom"
        /\ sent[p][2].contents =
             << [role |-> "user", text |-> <<"hello">>],
                [role |-> "user", text |-> <<"x", "stroke">>] >>


\* ---- the settings store
\* update_settings of thread p has written the file and not yet returned; it
\* holds the lock, so the file is what it wrote, and raw[p] is what it loaded.
Saved(p) == op[p] = "update" /\ pc[p] = "g_lock"

\* get_settings, called for GET /api/settings, has returned to thread p.
GotSettings(p) == op[p] = "get" /\ pc[p] = "done"

\* v brought into lo..hi.
Within(v, lo, hi) == IF v > hi THEN hi ELSE IF v < lo THEN lo ELSE v

\* C14: update_settings stores a supplied temperature clamped to [0,1] and
\* a supplied max_tokens clamped to [100,2000]; so the file never holds a
\* value outside the range, and get_settings never returns one.
C14_Clamped ==
    /\ (file.kind = "json" /\ file.data.isdict) =>
          /\ IsNone(file.data.temperature)
                \/ file.data.temperature[1] \in TEMPERATURE_MIN..TEMPERATURE_MAX
          /\ IsNone(file.data.max_tokens)
                \/ file.data.max_tokens[1] \in MAX_TOKENS_MIN..MAX_TOKENS_MAX
    /\ \A p \in Threads :
          /\ (Saved(p) /\ ~IsNone(uargs[p].temperature)) =>
                file.data.temperature =
                    Some(Within(uargs[p].temperature[1], 0, 100))
          /\ (Saved(p) /\ ~IsNone(uargs[p].max_tokens)) =>
                file.data.max_tokens =
                    Some(Within(uargs[p].max_tokens[1], 100, 2000))
          /\ GotSettings(p) =>
                /\ result[p].temperature \in 0..100
                /\ result[p].max_tokens \in 100..2000

\* get_settings returns the upper bound of the temperature and the lower
\* bound of max_tokens: the values two update_settings calls have stored
\* for a temperature above and a max_tokens below the range.
C14_Witness ==
    \E p \in Threads :
        /\ GotSettings(p)
        /\ result[p].temperature = 100
        /\ result[p].max_tokens = 100


\* The preset name supplied to the call is a known one.
KnownPreset(a) == ~IsNone(a.preset) /\ a.preset[1] \in DOMAIN PROMPT_PRESETS

\* C15: an update_settings call with a known preset name stores that name,
\* and the system_prompt get_settings then builds from the file is the
\* preset's text, also when the call supplied a system_prompt of its own;
\* with an unknown name the stored preset stays what it was, and so does
\* the system_prompt unless the call supplied one.  A get_settings that
\* returns gives what the file holds.
C15_PresetWins ==
    \A p \in Threads :
        /\ (Saved(p) /\ KnownPreset(uargs[p])) =>
              /\ file.data.preset = uargs[p].preset
              /\ SettingsView(_load_raw(file)).preset = uargs[p].preset[1]
              /\ SettingsView(_load_raw(file)).system_prompt =
                    PROMPT_PRESETS[uargs[p].preset[1]]
        /\ (Saved(p) /\ ~IsNone(uargs[p].preset) /\ ~KnownPreset(uargs[p])
              /\ raw[p].isdict) =>
              /\ file.data.preset = raw[p].preset
              /\ IsNone(uargs[p].system_prompt) =>
                    file.data.system_prompt = raw[p].system_prompt
        /\ (GotSettings(p) /\ Quiet) =>
              /\ result[p].preset = SettingsView(_load_raw(file)).preset
              /\ result[p].system_prompt =
                    SettingsView(_load_raw(file)).system_prompt

\* get_settings returns the concise preset and its text; the only call that
\* selects this preset supplies a custom system_prompt with it.
C15_Witness ==
    \E p \in Threads :
        /\ GotSettings(p)
        /\ result[p].preset = "concise"
        /\ result[p].system_prompt = PROMPT_PRESETS["concise"]
        /\ \A a \in UpdateArgs :
              a.preset = Some("concise") => a.system_prompt = Some("prompt:custom")


\* The fields of the settings.
SettingsFields ==
    {"system_prompt", "model", "temperature", "max_tokens", "preset", "voice"}

\* C16: update_settings leaves every field whose argument is omitted at its
\* prior value: what get_settings builds for the field from the file written
\* is what it builds from the file loaded, the one exception being
\* system_prompt when the call supplies a known preset.
C16_OmittedUnchanged ==
    \A p \in Threads :
        (Saved(p) /\ raw[p].isdict) =>
            \A k \in SettingsFields :
                (IsNone(uargs[p][k])
                    /\ ~(k = "system_prompt" /\ KnownPreset(uargs[p]))) =>
                    SettingsView(_load_raw(file))[k] = SettingsView(raw[p])[k]

\* A call that supplies only a voice, over a file with a custom prompt,
\* model, temperature and max_tokens: the voice is written, the rest is as
\* loaded.
C16_Witness ==
    \E p \in Threads :
        /\ Saved(p)
        /\ raw[p] = CustomRaw
        /\ ~IsNone(uargs[p].voice)
        /\ ~IsNone(file.data.voice)
        /\ file.data.temperature = Some(20)
        /\ file.data.model = CustomRaw.model
        /\ file.data.system_prompt = Some("prompt:custom")


\* The settings file is missing, or what it holds is not settings: not
\* parseable as JSON, not decodable as text, or JSON that is no object.
MissingOrCorrupt(f) ==
    \/ f.kind \in {"missing", "garbage", "undecodable"}
    \/ f.kind = "json" /\ ~f.data.isdict

\* C17: over a missing or corrupt settings file neither get_settings nor
\* update_settings fails; get_settings returns the all-defaults settings,
\* and update_settings writes a well-formed file that holds its changes on
\* top of empty settings.
C17_CorruptIsEmpty ==
    \A p \in Threads :
        /\ pc[p] # "raised"
        /\ (GotSettings(p) /\ Quiet /\ MissingOrCorrupt(file)) =>
              result[p] = DefaultView
        /\ Saved(p) =>
              /\ file.kind = "json"
              /\ file.data.isdict
              /\ raw[p] = EmptyRaw => file.data = MergeFields(EmptyRaw, uargs[p])


\* The keys of the stored voice, and the type each is declared with.
VoiceKeys == {"enabled", "speaker_id", "language", "auto_play"}

Coerced(k, v) == IF k \in {"enabled", "auto_play"} THEN PyBool(v) ELSE PyStr(v)

\* The value stored under key k of the voice before the call, if any.
StoredBefore(r, k) ==
    IF ~IsNone(r.voice) /\ r.voice[1].isdict /\ k \in DOMAIN r.voice[1].d
    THEN Some(r.voice[1].d[k])
    ELSE None

\* C18: after an update_settings call that supplies a voice, the stored
\* voice is a dict of exactly the four keys; a key supplied in the call has
\* the supplied value coerced to its type, a key not supplied has the value
\* stored before or else its default, and no other key is stored.
C18_VoiceMerged ==
    \A p \in Threads :
        (Saved(p) /\ ~IsNone(uargs[p].voice)) =>
            /\ ~IsNone(file.data.voice)
            /\ file.data.voice[1].isdict
            /\ DOMAIN file.data.voice[1].d = VoiceKeys
            /\ \A k \in VoiceKeys :
                 file.data.voice[1].d[k] =
                    IF k \in DOMAIN uargs[p].voice[1]
                    THEN Coerced(k, uargs[p].voice[1][k])
                    ELSE IF ~IsNone(StoredBefore(raw[p], k))
                    THEN StoredBefore(raw[p], k)[1]
                    ELSE DEFAULT_VOICE_SETTINGS[k]

\* A call that supplies enabled = 1 and an unknown key, over a stored voice
\* whose speaker_id and auto_play differ from the defaults: enabled becomes
\* True, the stored values stay, the language is the default, and the
\* unknown key is gone.
C18_Witness ==
    \E p \in Threads :
        /\ Saved(p)
        /\ uargs[p].voice = Some([enabled |-> "i:1", pitch |-> "s:high"])
        /\ StoredBefore(raw[p], "speaker_id") = Some("s:1")
        /\ file.data.voice[1].d =
             [enabled |-> "True", speaker_id |-> "s:1",
              language |-> "s:en", auto_play |-> "False"]


\* ---- the session store
\* Thread p executes the body of append_message in this step.
Appends(p) == pc[p] = "a_body" /\ pc'[p] = "done"

\* Thread p executes the body of get_history in this step.
ReadsHistory(p) == pc[p] = "h_body" /\ pc'[p] = "done"

\* C19: session isolation.  An append_message on session A adds its message
\* at the end of A's history and leaves every other session as it is; no
\* session ever disappears, and the history of a session B changes only by
\* an append_message on B; get_history(B) returns the history of B as it is
\* then, which is a prefix of what B holds at any later time.  So it returns
\* exactly the messages appended to B, in the order appended.
C19_Isolation ==
    /\ [][\A p \in Threads : Appends(p) =>
            LET A == session_id[p][1] IN
            /\ DOMAIN sessions' = DOMAIN sessions \cup {A}
            /\ sessions'[A] = Append(SessionsGet(sessions, A), msg[p])
            /\ \A B \in DOMAIN sessions : B # A => sessions'[B] = sessions[B]]_vars
    /\ [][\A B \in DOMAIN sessions :
            /\ B \in DOMAIN sessions'
            /\ \/ sessions'[B] = sessions[B]
               \/ \E p \in Threads :
                     Appends(p) /\ session_id[p] = Some(B)]_vars
    /\ [][\A p \in Threads : ReadsHistory(p) =>
            history'[p] = SessionsGet(sessions, session_id[p][1])]_vars
    /\ [](\A p \in Threads :
            (op[p] = "get_history" /\ pc[p] = "done") =>
                LET now == SessionsGet(sessions, session_id[p][1]) IN
                /\ Len(history[p]) <= Len(now)
                /\ history[p] = SubSeq(now, 1, Len(history[p])))

\* Two sessions with different histories: one thread has appended to the
\* first, another has read the second and got its history, which holds
\* nothing of the first.
C19_Witness ==
    \E p, q \in Threads : \E A, B \in DOMAIN sessions :
        /\ A # B
        /\ op[p] = "append" /\ pc[p] = "done" /\ session_id[p] = Some(A)
        /\ op[q] = "get_history" /\ pc[q] = "done" /\ session_id[q] = Some(B)
        /\ sessions[A] = << [role |-> "user", content |-> <<"hello">>],
                            [role |-> "user", content |-> <<"hello">>] >>
        /\ sessions[B] = << [role |-> "assistant", content |-> <<"x">>] >>
        /\ history[q] = sessions[B]


\* Thread p, in get_or_create_session, makes the test in this step.
Checks(p) == pc[p] = "goc_check" /\ pc'[p] # "goc_check"

\* Thread p, in get_or_create_session, stores the new session and returns.
Allocates(p) ==
    op[p] = "get_or_create" /\ pc[p] = "c_body" /\ pc'[p] = "done"

\* The id given to the call is a key of the session map (and no empty id).
GivenIsKey(p) ==
    /\ ~IsNone(session_id[p])
    /\ session_id[p][1] # ""
    /\ session_id[p][1] \in DOMAIN sessions

\* C20: get_or_create_session returns the given id, and changes nothing,
\* when the id is a key of the session map; otherwise (null, empty or not a
\* key) it returns a new id that was no key before and now maps to an empty
\* history, every other session staying as it is; it adds no other key, so
\* not the unknown id it was given.
C20_GetOrCreate ==
    /\ [][\A p \in Threads : Checks(p) =>
            /\ sessions' = sessions
            /\ IF GivenIsKey(p)
               THEN pc'[p] = "done" /\ sid'[p] = session_id[p]
               ELSE pc'[p] = "c_uuid"]_vars
    /\ [][\A p \in Threads : Allocates(p) =>
            LET new == sid'[p][1] IN
            /\ sid'[p] = sid[p]
            /\ Some(new) # session_id[p]
            /\ new \notin DOMAIN sessions
            /\ DOMAIN sessions' = DOMAIN sessions \cup {new}
            /\ sessions'[new] = <<>>
            /\ \A B \in DOMAIN sessions : sessions'[B] = sessions[B]]_vars
    /\ [][\A p \in Threads :
            (op[p] = "get_or_create" /\ pc'[p] # pc[p] /\ ~Allocates(p)) =>
                sessions' = sessions]_vars
    /\ [](\A p \in Threads :
            (op[p] = "get_or_create" /\ pc[p] = "done") =>
                /\ ~IsNone(sid[p])
                /\ sid[p][1] \in DOMAIN sessions
                /\ sid[p] = session_id[p] \/ sid[p][1] \in issued)

\* One call was given an id never created and returned a new id with an
\* empty history, the id given being no key; another was given the id of a
\* session with a history and returned that id.
C20_Witness ==
    \E p, q \in Threads :
        /\ op[p] = "get_or_create" /\ pc[p] = "done"
        /\ session_id[p] = Some("unknown-id")
        /\ "unknown-id" \notin DOMAIN sessions
        /\ sid[p] # session_id[p]
        /\ sessions[sid[p][1]] = <<>>
        /\ op[q] = "get_or_create" /\ pc[q] = "done"
        /\ sid[q] = session_id[q]
        /\ sid[q] # sid[p]
        /\ sessions[sid[q][1]] # <<>>


\* The id given to the store function thread p is in is no key of the map.
UnknownId(p) == session_id[p][1] \notin DOMAIN sessions

\* C21: get_history on an id that is no key of the session map returns the
\* empty sequence, does not fail and does not add the id to the map;
\* append_message on such an id creates the session, with that one message
\* as its history.
C21_UnknownIds ==
    /\ [][\A p \in Threads : (ReadsHistory(p) /\ UnknownId(p)) =>
            /\ history'[p] = <<>>
            /\ sessions' = sessions]_vars
    /\ [][\A p \in Threads : (Appends(p) /\ UnknownId(p)) =>
            /\ DOMAIN sessions' = DOMAIN sessions \cup {session_id[p][1]}
            /\ sessions'[session_id[p][1]] = <<msg[p]>>]_vars
    /\ [](\A p \in Threads :
            /\ op[p] = "get_history" => pc[p] \in {"h_lock", "h_body", "done"}
            /\ pc[p] = "h_body" => ENABLED HistBody(p)
            /\ op[p] = "append" => pc[p] \in {"a_lock", "a_body", "done"}
            /\ pc[p] = "a_body" => ENABLED AppBody(p))

\* get_history on the id never created has returned the empty sequence, and
\* then append_message on that id has created the session with its message.
C21_Witness ==
    \E p, q \in Threads :
        /\ op[p] = "get_history" /\ pc[p] = "done"
        /\ session_id[p] = Some("unknown-id")
        /\ history[p] = <<>>
        /\ op[q] = "append" /\ pc[q] = "done"
        /\ session_id[q] = Some("unknown-id")
        /\ sessions["unknown-id"] = <<msg[q]>>


\* Sequence a is the beginning of sequence b.
IsPrefix(a, b) == Len(a) <= Len(b) /\ a = SubSeq(b, 1, Len(a))

\* C22: session histories are append-only.  In every step of every
\* interleaving of create_session, get_history, append_message and
\* get_or_create_session a session id in the map stays in the map and the
\* history it had is the beginning of the history it has after the step; so
\* the history in any earlier state is a prefix of the history in any later
\* state.
C22_AppendOnly ==
    [][\A B \in DOMAIN sessions :
          /\ B \in DOMAIN sessions'
          /\ IsPrefix(sessions[B], sessions'[B])]_vars

\* An append_message has added a second message to a session that had one,
\* in a map of two sessions or more.
C22_Witness ==
    \E p \in Threads :
        /\ op[p] = "append" /\ pc[p] = "done"
        /\ session_id[p][1] \in DOMAIN sessions
        /\ Len(sessions[session_id[p][1]]) = 2
        /\ sessions[session_id[p][1]][2] = msg[p]
        /\ sessions[session_id[p][1]][1] # msg[p]
        /\ Cardinality(DOMAIN sessions) >= 2


\* The steps of the store functions that read or write _sessions: the test
\* of get_or_create_session and the bodies of the three with blocks.
AccessesMap(p) == pc[p] \in {"goc_check", "c_body", "h_body", "a_body"}

\* C23: every read and every write of the session map by create_session,
\* get_history, append_message and get_or_create_session is made by a thread
\* that holds the session lock.
C23_LockedAccess ==
    \A p \in Threads : AccessesMap(p) => storeLock = p

\* The writes of the session map, and the reads of get_history and
\* append_message, are made by the thread that holds the session lock.
C23_LockedBodies ==
    \A p \in Threads : pc[p] \in {"c_body", "h_body", "a_body"} => storeLock = p

\* get_or_create_session is about to read the map while another thread is
\* inside the with block of append_message.
C23_UnlockedRead ==
    \E p, q \in Threads :
        /\ pc[p] = "goc_check"
        /\ pc[q] = "a_body"
        /\ storeLock = q


\* C25: one call of get_chat_response reads the settings once, before any
\* attempt: the settings it holds are set by the one get_settings() at its
\* start and do not change afterwards, whatever is written to the settings
\* file meanwhile, and every attempt carries their system prompt,
\* temperature and max_tokens and the candidate, in order, of their model.
C25_SettingsReadOnce ==
    /\ [][\A p \in Threads :
            (Responding(p) /\ pc[p] \notin {"idle", "done"}
                           /\ settings'[p] # settings[p]) =>
                /\ pc[p] = "g_load"
                /\ sent[p] = <<>>
                /\ sent'[p] = <<>>]_vars
    /\ [](\A p \in Threads :
            Responding(p) =>
                \A i \in 1..Len(sent[p]) :
                    /\ sent[p][i].system = settings[p].system_prompt
                    /\ sent[p][i].temperature = settings[p].temperature
                    /\ sent[p][i].max_tokens = settings[p].max_tokens
                    /\ sent[p][i].model =
                          _candidate_models(settings[p].model)[i]
                    /\ sent[p][i].system = sent[p][1].system
                    /\ sent[p][i].temperature = sent[p][1].temperature
                    /\ sent[p][i].max_tokens = sent[p][1].max_tokens)

\* A call has made two attempts or more with the settings it read, while
\* another thread's update_settings has since written a file with another
\* system prompt, model or temperature.
C25_Witness ==
    \E p, q \in Threads :
        /\ Responding(p)
        /\ Len(sent[p]) >= 2
        /\ op[q] = "update" /\ pc[q] = "g_lock"
        /\ ~LoadRaises(file)
        /\ LET now == SettingsView(_load_raw(file)) IN
              \/ now.system_prompt # settings[p].system_prompt
              \/ now.model # settings[p].model
              \/ now.temperature # settings[p].temperature
              \/ now.max_tokens # settings[p].max_tokens

\* The answer is a 2xx response whose body the code could read.
Succeeded(o) == o.kind = "ok" /\ o.json

\* The non-empty texts of the parts of a response, candidate by candidate.
RECURSIVE NonEmptyTexts(_)
NonEmptyTexts(c) ==
    IF c = <<>> THEN <<>>
    ELSE SelectSeq(Head(c), LAMBDA t : t # "") \o NonEmptyTexts(Tail(c))

\* The texts with a newline between each two.
NewlineJoined(parts) ==
    [i \in 1..(2 * Len(parts) - 1) |->
        IF i % 2 = 1 THEN parts[(i + 1) \div 2] ELSE "\n"]

\* C26: an attempt that succeeds is the last of its call: the call returns
\* at once, with the non-empty text parts of all candidates of the response
\* joined by newlines in response order, or with the could-not-generate
\* message when there is no such part; no later candidate is attempted.
C26_SuccessReturns ==
    \A p \in Threads :
        Responding(p) =>
            \A i \in 1..Len(outcomes[p]) :
                Succeeded(outcomes[p][i]) =>
                    LET texts == NonEmptyTexts(outcomes[p][i].cands) IN
                    /\ i = Len(outcomes[p])
                    /\ Len(sent[p]) = i
                    /\ pc[p] = "done"
                    /\ reply[p] = IF texts # <<>> THEN NewlineJoined(texts)
                                                  ELSE MSG_NO_TEXT

\* After a 404 the second of several candidates answered with a response
\* without text, and the call returned the could-not-generate message.
C26_Witness ==
    \E p \in Threads :
        /\ Returned(p)
        /\ Len(outcomes[p]) = 2
        /\ Len(cands[p]) > 2
        /\ Is404(outcomes[p][1])
        /\ outcomes[p][2] = Ok(<< <<"">> >>)
        /\ reply[p] = MSG_NO_TEXT


\* Thread p is inside a chat request.
InChat(p) == stage[p] \notin {"none", "end"}

\* Thread p is about to send an attempt to the LLM.
AtAttempt(p) == pc[p] = "r_try"

\* Thread p is about to call generate_response_audio.
AtAudio(p) == stage[p] = "audio"

HoldsNoLock(p) == lock # p /\ storeLock # p

\* C24: in a chat request the LLM attempt and the audio synthesis call are
\* made by a thread that holds neither the settings lock nor the session
\* lock, and the audio synthesis call is made only once get_chat_response
\* has returned the response text, which is the text that is then stored.
C24_NoLockWhileBlocking ==
    /\ [](\A p \in Threads :
            /\ (InChat(p) /\ AtAttempt(p)) => HoldsNoLock(p)
            /\ AtAudio(p) =>
                  /\ HoldsNoLock(p)
                  /\ reply[p] # <<>>
                  /\ pc[p] = "done"
                  /\ Len(sent[p]) = Len(outcomes[p]))
    /\ [][\A p \in Threads :
            (AtAudio(p) \/ stage[p] \in {"synth_session", "synth_settings"}) =>
                /\ reply'[p] = reply[p]
                /\ sent'[p] = sent[p]]_vars

\* A thread is about to call the audio synthesis with the voice enabled,
\* after two attempts to the LLM, while another thread holds the session
\* lock.
C24_Witness ==
    \E p, q \in Threads :
        /\ AtAudio(p)
        /\ result[p].voice.enabled = "True"
        /\ Len(sent[p]) >= 2
        /\ q # p
        /\ storeLock = q


\* The roles of a history alternate: user, assistant, user, ...
Alternates(h) ==
    \A i \in 1..Len(h) :
        h[i].role = IF i % 2 = 1 THEN "user" ELSE "assistant"

\* Thread p has completed a chat request with a message that is not blank.
Completed(p) == stage[p] = "end" /\ question[p] # <<>>

\* C27: in any interleaving of chat requests with non-empty messages, also
\* of several on one session, every session history alternates user,
\* assistant, and a completed request's user message is in the session it
\* returns, immediately followed by its own assistant response.
C27_RequestsAlternate ==
    /\ \A id \in DOMAIN sessions : Alternates(sessions[id])
    /\ \A p \in Threads :
          Completed(p) =>
              LET h == SessionsGet(sessions, chat_session_id[p][1]) IN
              \E i \in 1..(Len(h) - 1) :
                  /\ h[i] = [role |-> "user", content |-> question[p]]
                  /\ h[i + 1] = [role |-> "assistant", content |-> reply[p]]

\* Two chat requests on one session have both completed, and the session
\* holds the two user messages first and the two responses after them.
C27_Interleaved ==
    \E p, q \in Threads :
        /\ p # q
        /\ Completed(p) /\ Completed(q)
        /\ chat_session_id[p] = chat_session_id[q]
        /\ LET h == sessions[chat_session_id[p][1]] IN
              /\ Len(h) = 4
              /\ h[1] = [role |-> "user", content |-> question[p]]
              /\ h[2] = [role |-> "user", content |-> question[q]]
              /\ h[3].role = "assistant"
              /\ h[4].role = "assistant"

\* One request has appended its user message and not yet its response,
\* while another request on the same session is inside append_message with
\* its own user message.
C27_AppendsNotAtomic ==
    \E p, q \in Threads :
        /\ stage[p] = "user" /\ pc[p] = "done"
        /\ stage[q] = "user" /\ pc[q] = "a_body"
        /\ session_id[p] = session_id[q]

====
